---------------------------- MODULE Spec2Model ----------------------------
(***************************************************************************)
(* Work-order processing pipeline: the numbered-field response parser, the *)
(* service assembler and the categorization post-processing                *)
(* (split / parse / validate / consolidate / format).                      *)
(*                                                                         *)
(* Text is modelled as a sequence of symbols.  A symbol is either a single *)
(* character (" ", "\n", ":", ".", "1", ...) or one of the literals and    *)
(* words the code compares against ("Service:", "N/A", "Miscellaneous",    *)
(* "Lot", ...), written as one TLA+ string.  Concatenation, prefix and     *)
(* substring tests are computed on these sequences.                        *)
(***************************************************************************)
EXTENDS Integers, Sequences, FiniteSets, TLC

VARIABLES
    \* extract_data_with_claude, parsing loop
    response_text, lines, li, extracted_fields, fpc,
    \* extract_services
    fields, services, spc,
    \* categorize_aeon / categorize_ae3
    profile, result, service_blocks, bi, parsed_services, ci,
    consolidated_services, output, cpc,
    \* clean_hours, safe_float and OCRService._safe_float
    raw_value, hours_text, number, path, npc,
    \* apply_ml_categorization
    df, idx, categorized_data, ui, rpc,
    \* safe_int
    year_value, year_val, ypc,
    \* process_pdf_to_bigquery and extract_data_with_claude
    attempt, api_calls, message, waits, data, inserted, processed, epc,
    \* OCRService.extract_from_pdf
    jobs, active_ocr_jobs, ocr_requests_total,
    \* a categorizer run again on its own output
    run, first_output,
    \* utils/structured_logger
    correlation_id, contexts, log_entries

fpVars == <<response_text, lines, li, extracted_fields, fpc>>
saVars == <<fields, services, spc>>
catVars == <<profile, result, service_blocks, bi, parsed_services, ci,
             consolidated_services, output, cpc>>
numVars == <<raw_value, hours_text, number, path, npc>>
rtVars == <<df, idx, categorized_data, ui, rpc>>
yrVars == <<year_value, year_val, ypc>>
exVars == <<attempt, api_calls, message, waits, data, inserted, processed,
            epc>>
ocrVars == <<jobs, active_ocr_jobs, ocr_requests_total>>
agVars == <<run, first_output>>
logVars == <<correlation_id, contexts, log_entries>>
vars == <<fpVars, saVars, catVars, numVars, rtVars, yrVars, exVars, ocrVars, agVars, logVars>>

(***************************************************************************)
(* Bounds                                                                  *)
(***************************************************************************)
MaxLines == 2
MaxParagraphs == 2
MaxBlocks == 3
MaxLabelBlocks == 2
MaxDigits == 2
MaxRows == 5
MaxJobs == 2
MaxContexts == 2
MaxProgress == 1

(***************************************************************************)
(* Python string primitives                                                *)
(***************************************************************************)
IsSpace(c) == c \in {" ", "\n", "\t", "\r"}

\* the element of a one-element set.  A set constructor binds its variable
\* to a value, so Only({ F(v) : v \in {e} }) computes e once for all of F.
Only(S) == CHOOSE r \in S : TRUE

RECURSIVE LStrip(_)
LStrip(s) == IF s # <<>> /\ IsSpace(Head(s)) THEN LStrip(Tail(s)) ELSE s

RECURSIVE RStrip(_)
RStrip(s) ==
    IF s # <<>> /\ IsSpace(s[Len(s)]) THEN RStrip(SubSeq(s, 1, Len(s) - 1)) ELSE s

\* str.strip()
Strip(s) == RStrip(LStrip(s))

\* c in s, for a single symbol c
Contains(s, c) == \E k \in 1..Len(s) : s[k] = c

\* index of the first occurrence of c in s, 0 when there is none
RECURSIVE FindFrom(_, _, _)
FindFrom(s, c, k) ==
    IF k > Len(s) THEN 0
    ELSE IF s[k] = c THEN k
    ELSE FindFrom(s, c, k + 1)

Find(s, c) == FindFrom(s, c, 1)

\* str.split(c): the pieces between the occurrences of c, always >= 1 piece
RECURSIVE Split(_, _)
Split(s, c) ==
    Only({ IF k = 0 THEN <<s>>
           ELSE Only({ <<SubSeq(s, 1, k - 1)>> \o Split(rest, c) :
                       rest \in {SubSeq(s, k + 1, Len(s))} }) :
           k \in {Find(s, c)} })

\* str.split(c, 1): cut at the first occurrence of c only
Split1(s, c) ==
    Only({ IF k = 0 THEN <<s>>
           ELSE <<SubSeq(s, 1, k - 1), SubSeq(s, k + 1, Len(s))>> :
           k \in {Find(s, c)} })

\* sep.join(ls)
RECURSIVE Join(_, _)
Join(ls, sep) ==
    IF ls = <<>> THEN <<>>
    ELSE IF Len(ls) = 1 THEN ls[1]
    ELSE ls[1] \o sep \o Join(Tail(ls), sep)

Digits == {"0", "1", "2", "3", "4", "5", "6", "7", "8", "9"}

DigitVal(c) ==
    CASE c = "0" -> 0 [] c = "1" -> 1 [] c = "2" -> 2 [] c = "3" -> 3
      [] c = "4" -> 4 [] c = "5" -> 5 [] c = "6" -> 6 [] c = "7" -> 7
      [] c = "8" -> 8 [] c = "9" -> 9

RECURSIVE DecVal(_, _)
DecVal(s, acc) ==
    IF s = <<>> THEN acc
    ELSE IF Head(s) = "_" THEN DecVal(Tail(s), acc)
    ELSE DecVal(Tail(s), 10 * acc + DigitVal(Head(s)))

\* the grammar int() accepts after the sign: digits, single underscores
\* allowed between two digits
IsIntBody(s) ==
    /\ s # <<>>
    /\ \A k \in 1..Len(s) : s[k] \in Digits \cup {"_"}
    /\ s[1] \in Digits /\ s[Len(s)] \in Digits
    /\ \A k \in 1..(Len(s) - 1) : ~(s[k] = "_" /\ s[k + 1] = "_")

\* int(x) of a string: surrounding whitespace ignored, optional sign.
\* ok = FALSE stands for ValueError.
PyInt(x) ==
    Only({ LET signed == t # <<>> /\ Head(t) \in {"-", "+"}
               body == IF signed THEN Tail(t) ELSE t
           IN  IF IsIntBody(body)
               THEN [ok |-> TRUE,
                     val |-> IF signed /\ Head(t) = "-" THEN 0 - DecVal(body, 0)
                             ELSE DecVal(body, 0)]
               ELSE [ok |-> FALSE, val |-> 0] :
           t \in {Strip(x)} })

(***************************************************************************)
(* Field parser: the parsing loop of extract_data_with_claude              *)
(***************************************************************************)
\* an assignment that keeps the value a key already has
DictPutKeepFirst(d, k, v) ==
    [x \in DOMAIN d \cup {k} |-> IF x \in DOMAIN d THEN d[x] ELSE v]

\* dict assignment d[k] = v
DictPut(d, k, v) ==
    [x \in DOMAIN d \cup {k} |-> IF x = k THEN v ELSE d[x]]

EmptyDict == [x \in {} |-> <<>>]

\* the index token of a line: the text before the first colon, cut at its
\* first period when it has one
FieldNum(line) ==
    Only({ IF Contains(field_num, ".") THEN Strip(Split(field_num, ".")[1])
           ELSE field_num :
           field_num \in {Strip(Split1(line, ":")[1])} })

\* a parser that cuts the line at every colon and keeps the second piece
FieldValueEveryColon(line) == Strip(Split(line, ":")[2])

FieldValue(line) == Strip(Split1(line, ":")[2])

\* a parser that files a line whose index does not parse under index 0
ParseLineDefaultIndex(d, raw) ==
    Only({ IF line = <<>> \/ ~Contains(line, ":") THEN d
           ELSE Only({ DictPut(d, r.val, FieldValue(line)) :
                       r \in {PyInt(FieldNum(line))} }) :
           line \in {Strip(raw)} })

\* one iteration of "for line in lines": the dict after the iteration
ParseLine(d, raw) ==
    Only({ IF line = <<>> \/ ~Contains(line, ":") THEN d
           ELSE IF Len(Split1(line, ":")) # 2 THEN d
           ELSE Only({ IF r.ok THEN DictPut(d, r.val, FieldValue(line)) ELSE d :
                       r \in {PyInt(FieldNum(line))} }) :
           line \in {Strip(raw)} })

(***************************************************************************)
(* Numeric coercion and hours cleaning                                     *)
(***************************************************************************)
NA == <<"N", "/", "A">>

\* s[k..] starts with pat
StartsAt(s, pat, k) ==
    /\ k + Len(pat) - 1 <= Len(s)
    /\ \A j \in 1..Len(pat) : s[k + j - 1] = pat[j]

\* str.replace(pat, ""): leftmost non-overlapping occurrences removed
RECURSIVE Remove(_, _)
Remove(s, pat) ==
    IF s = <<>> THEN <<>>
    ELSE IF StartsAt(s, pat, 1) THEN Remove(SubSeq(s, Len(pat) + 1, Len(s)), pat)
    ELSE <<Head(s)>> \o Remove(Tail(s), pat)

\* the texts clean_hours replaces by "", in the order of its replace calls
HoursNoise ==
    << <<" ", "e", "a", "c", "h">>, <<" ", "/", "e", "a", "c", "h">>,
       <<"/", "e", "a", "c", "h">>, <<" ", "m", "a", "n">>,
       <<" ", "/", "m", "a", "n">>, <<"/", "m", "a", "n">> >>

\* s.replace(pats[1], "").replace(pats[2], "") ...
RECURSIVE RemoveEach(_, _)
RemoveEach(s, pats) ==
    IF pats = <<>> THEN s
    ELSE Only({ RemoveEach(t, Tail(pats)) : t \in {Remove(s, Head(pats))} })

\* a cleaning that knows the " each" form only
clean_hoursEachOnly(value) ==
    IF value = <<>> THEN <<>> ELSE Remove(value, <<" ", "e", "a", "c", "h">>)

clean_hours(value) ==
    IF value = <<>> THEN <<>> ELSE RemoveEach(value, HoursNoise)

None == [kind |-> "None", mant |-> 0, exp |-> 0]

\* a finite float m * 10^e, written with m not divisible by 10 (0 is 0 * 10^0);
\* binary rounding is left out
RECURSIVE Num(_, _)
Num(m, e) ==
    IF m = 0 THEN [kind |-> "num", mant |-> 0, exp |-> 0]
    ELSE IF m % 10 = 0 THEN Num(m \div 10, e + 1)
    ELSE [kind |-> "num", mant |-> m, exp |-> e]

Lower(c) ==
    CASE c = "I" -> "i" [] c = "N" -> "n" [] c = "F" -> "f" [] c = "T" -> "t"
      [] c = "Y" -> "y" [] c = "A" -> "a" [] c = "E" -> "e" [] OTHER -> c

RECURSIVE CountDigits(_)
CountDigits(s) ==
    IF s = <<>> THEN 0
    ELSE (IF Head(s) \in Digits THEN 1 ELSE 0) + CountDigits(Tail(s))

\* s cut at its first c
Cut(s, c) ==
    LET at == Find(s, c) IN
    IF at = 0 THEN [found |-> FALSE, head |-> s, tail |-> <<>>]
    ELSE [found |-> TRUE, head |-> SubSeq(s, 1, at - 1),
          tail |-> SubSeq(s, at + 1, Len(s))]

\* the exponent of a float literal cut at "e": an integer, without leading space
Exponent(cut) ==
    IF ~cut.found THEN [ok |-> TRUE, val |-> 0]
    ELSE Only({ IF r.ok /\ ~IsSpace(cut.tail[1]) THEN [ok |-> TRUE, val |-> r.val]
                ELSE [ok |-> FALSE, val |-> 0] : r \in {PyInt(cut.tail)} })

\* the float with integer part ip, fraction fp and exponent expo
FloatOfParts(neg, ip, fp, expo) ==
    LET mantOk == /\ (ip = <<>> \/ IsIntBody(ip))
                  /\ (fp = <<>> \/ IsIntBody(fp))
                  /\ ~(ip = <<>> /\ fp = <<>>)
    IN  IF mantOk /\ expo.ok
        THEN Only({ Num(IF neg THEN 0 - m ELSE m, expo.val - CountDigits(fp)) :
                    m \in {DecVal(ip \o fp, 0)} })
        ELSE [kind |-> "error", mant |-> 0, exp |-> 0]

\* the float of a literal in lower case, its sign taken off
FloatOfBody(neg, body) ==
    IF body \in { <<"i", "n", "f">>,
                  <<"i", "n", "f", "i", "n", "i", "t", "y">> }
    THEN [kind |-> IF neg THEN "-inf" ELSE "inf", mant |-> 0, exp |-> 0]
    ELSE IF body = <<"n", "a", "n">> THEN [kind |-> "nan", mant |-> 0, exp |-> 0]
    ELSE Only({ Only({ FloatOfParts(neg, mc.head, mc.tail, expo) :
                       mc \in {Cut(ec.head, ".")}, expo \in {Exponent(ec)} }) :
                ec \in {Cut(body, "e")} })

\* the sign and the lower-case body of a trimmed literal
Signed(t) ==
    LET signed == t # <<>> /\ Head(t) \in {"-", "+"}
        off == IF signed THEN 1 ELSE 0
    IN  [neg |-> signed /\ Head(t) = "-",
         body |-> [k \in 1..(Len(t) - off) |-> Lower(t[k + off])]]

\* float(x) of a string; kind "error" stands for ValueError
PyFloat(x) ==
    Only({ Only({ FloatOfBody(sg.neg, sg.body) : sg \in {Signed(t)} }) :
           t \in {Strip(x)} })

safe_float(value) ==
    IF value = <<>> \/ value = NA THEN None
    ELSE LET r == PyFloat(value) IN IF r.kind = "error" THEN None ELSE r

(***************************************************************************)
(* Service assembler: extract_services                                     *)
(***************************************************************************)
\* fields.get(k) is truthy: the key is there and its value is not ""
Truthy(d, k) == k \in DOMAIN d /\ d[k] # <<>>

\* fields.get(k, "")
Get(d, k) == IF k \in DOMAIN d THEN d[k] ELSE <<>>

Item(d, typeAt, dateAt) ==
    Only({ [service_type |-> Get(d, typeAt),
            date |-> Get(d, dateAt),
            quantity |-> safe_float(q),
            hours |-> safe_float(h)] :
           q \in {Get(d, dateAt + 1)}, h \in {clean_hours(Get(d, dateAt + 2))} })

\* a section that appends its continuation line before its primary line
SlotItemsContinuationFirst(d, b) ==
    IF Truthy(d, b) /\ d[b] # NA
    THEN (IF Truthy(d, b + 4) /\ d[b + 4] # NA THEN <<Item(d, b, b + 4)>> ELSE <<>>)
         \o <<Item(d, b, b + 1)>>
    ELSE <<>>

\* the items one "# Service n" section appends, b the index of its
\* service-type field
SlotItems(d, b) ==
    IF Truthy(d, b) /\ d[b] # NA
    THEN <<Item(d, b, b + 1)>> \o
         (IF Truthy(d, b + 4) /\ d[b + 4] # NA THEN <<Item(d, b, b + 4)>> ELSE <<>>)
    ELSE <<>>

SlotBases == <<8, 15, 22, 29>>

extract_services(d) ==
    SlotItems(d, SlotBases[1]) \o SlotItems(d, SlotBases[2])
        \o SlotItems(d, SlotBases[3]) \o SlotItems(d, SlotBases[4])

(***************************************************************************)
(* Categorization: categorize_aeon and categorize_ae3                      *)
(***************************************************************************)
AEON_CATEGORIES ==
    { <<"Straw Installation">>, <<"Straw Removal">>,
      <<"Cleaning/loading sidewalk debris">>, <<"Hauling sidewalk debris">>,
      <<"Spreading Debris at Stockpile">>, <<"Cleaning/Loading Debris">>,
      <<"Excavate Infiltration">>, <<"Supply Material (Infiltration)">>,
      <<"Install Infiltration">>, <<"Backfill Infiltration">>,
      <<"Compaction infiltration">>,
      <<"Relevel After Infiltration Backfill">>,
      <<"Initial Install of Slabs and Steps (Rear)">>,
      <<"Temporary Installation of Slabs and Steps (Front)">>,
      <<"Relevel Slabs">>, <<"Initial install of window wells">>,
      <<"Grading Work">>, <<"Topping Up Under Structures">>,
      <<"Filter Cloth Installation">>,
      <<"Regrading washouts due to heavy rains">>,
      <<"Grade & Sod Contract Completions">>,
      <<"Extra Deep Sod (125 feet)">>,
      <<"Removing filter cloth from rear yard">>,
      <<"Loading & Hauling Topsoil/Fill Stockpile Within Site">>,
      <<"Spreading at Stockpile">>, <<"Leveling at Stockpile">>,
      <<"Loading & Hauling Topsoil/Fill from Lots to Stockpile">>,
      <<"Loading & Hauling Topsoil/Fill from Lot to Lot">>,
      <<"Spreading Topsoil on Lots">>, <<"Spreading Topsoil">>,
      <<"Loading & Hauling Topsoil/Fill from Stockpile to Lots">>,
      <<"Importing Topsoil/Fill From Offsite">>,
      <<"Topsoil Placement for In-Betweens">>,
      <<"Spreading/Topping Up In-Betweens">>,
      <<"Removing Rocks & Debris from Topsoil">>, <<"Sod Removal">>,
      <<"Settlement Repairs">>, <<"Curb settlement repairs">>,
      <<"Sod Material for Curb Repair">>,
      <<"Driveway Edge Settlement Repairs">>,
      <<"Sod Material for Driveway Edge">>, <<"Miscellaneous">>,
      <<"Bin Management">>, <<"Indoor Cleaning">>, <<"Garbage Collection">>,
      <<"Brick Management">>, <<"Concrete Work">>, <<"Equipment Supply">>,
      <<"Garage Filling & Leveling">>, <<"Labor Supply">>,
      <<"Road Maintenance">>, <<"Wall & Fence Installation">>,
      <<"Water Management">>, <<"Drainage System Installation">>,
      <<"Sod Installation">> }

AE3_CATEGORIES ==
    { <<"Ripping Basement">>, <<"Ripping Sewers">>, <<"Ripping Base">>,
      <<"Ripping Backfill">>, <<"Stockpile Sewer">>,
      <<"Stockpile Basement">>, <<"Backfill Basement">>,
      <<"Sewer Backfill">>, <<"Sewer Excavation">>,
      <<"Basement Excavation">>, <<"Double Cast Sewer">>,
      <<"Double Cast Basement">>, <<"Straw Installation">>,
      <<"Straw Removal">>, <<"Strip Topsoil prior to Excavation">>,
      <<"Driveway Cut">>, <<"Loading Fill From Lots">>,
      <<"Loading Fill To Lots">>, <<"Haul From Stockpile">>,
      <<"Haul To Stockpile">>, <<"Loading Excess Fill Offsite">>,
      <<"Hauling Excess Fill Offsite">>, <<"Spreading At Stockpile">>,
      <<"Rough Grade">>, <<"Low Lots">>, <<"Base Condition">>,
      <<"Concrete Work">>, <<"Mud">>, <<"General Stockpile">>, <<"Grade">>,
      <<"Releveling">>, <<"Spreading/Top Up">>, <<"Cast/ Double Cast">>,
      <<"General Straw">>, <<"Road">>, <<"Tarp">>, <<"Flagman">>, <<"Snow">>,
      <<"Ramp">>, <<"Miscellaneous">> }

NotSpecified == <<"Not specified">>

StartsWith(s, p) == StartsAt(s, p, 1)

\* a split at every blank line
RECURSIVE ReSplitEveryBlankLine(_, _)
ReSplitEveryBlankLine(s, acc) ==
    IF s = <<>> THEN <<acc>>
    ELSE IF StartsAt(s, <<"\n", "\n">>, 1)
    THEN <<acc>> \o ReSplitEveryBlankLine(SubSeq(s, 3, Len(s)), <<>>)
    ELSE ReSplitEveryBlankLine(Tail(s), Append(acc, Head(s)))

\* re.split(r'\n\n(?=Service:)', s); acc is the piece being collected
RECURSIVE ReSplit(_, _)
ReSplit(s, acc) ==
    IF s = <<>> THEN <<acc>>
    ELSE IF StartsAt(s, <<"\n", "\n", "Service:">>, 1)
    THEN <<acc>> \o ReSplit(SubSeq(s, 3, Len(s)), <<>>)
    ELSE ReSplit(Tail(s), Append(acc, Head(s)))

\* re.search(marker + r'\s*(.*?)(?:\n|$)', block): whether it matches, and
\* group(1).  \s* runs over every kind of whitespace, newlines included; the
\* group then runs up to the next newline or the end of the block.
Search(block, marker) ==
    Only({ IF k = 0 THEN [found |-> FALSE, group |-> <<>>]
           ELSE Only({ Only({ [found |-> TRUE,
                               group |-> IF nl = 0 THEN rest
                                         ELSE SubSeq(rest, 1, nl - 1)] :
                              nl \in {Find(rest, "\n")} }) :
                       rest \in {LStrip(SubSeq(block, k + 1, Len(block)))} }) :
           k \in {Find(block, marker)} })

\* a validation that tests membership only, without the escape prefixes
ValidateAeonMembersOnly(service) ==
    IF service \notin AEON_CATEGORIES
    THEN <<"Miscellaneous", " ", "(">> \o service \o <<")">>
    ELSE service

ValidateAeon(service) ==
    IF /\ ~StartsWith(service, <<"Settlement Repairs">>)
       /\ ~StartsWith(service, <<"Miscellaneous">>)
       /\ service \notin AEON_CATEGORIES
    THEN <<"Miscellaneous", " ", "(">> \o service \o <<")">>
    ELSE service

\* the AE3 substitution rules
Substitute(service) ==
    IF service = <<"Haul From Lots">> THEN <<"Haul To Stockpile">>
    ELSE IF service = <<"Haul To Lots">> THEN <<"Haul From Stockpile">>
    ELSE IF service = <<"Loading Fill To Stockpile">> THEN <<"Loading Fill From Lots">>
    ELSE IF service = <<"Loading Fill From Stockpile">> THEN <<"Loading Fill To Lots">>
    ELSE service

\* a validation that lets every label through
ValidateAe3AcceptsAll(service) == service

ValidateAe3(service) ==
    IF ~StartsWith(service, <<"Miscellaneous">>) /\ service \notin AE3_CATEGORIES
    THEN <<"Miscellaneous", " ", "(">> \o service \o <<")">>
    ELSE service

\* a validation that applies the AE3 substitution after the membership test
ValidatedThenSubstituted(p, raw) ==
    IF p = "AEON" THEN ValidateAeon(raw) ELSE Substitute(ValidateAe3(raw))

\* the label as appended to parsed_services
Validated(p, raw) ==
    IF p = "AEON" THEN ValidateAeon(raw) ELSE ValidateAe3(Substitute(raw))

\* the body of "for block in service_blocks": the pairs the block appends
BlockPairs(p, block) ==
    Only({ IF service_match.found
           THEN << [service |-> Validated(p, Strip(service_match.group)),
                    blocks |-> IF blocks_match.found THEN Strip(blocks_match.group)
                               ELSE NotSpecified] >>
           ELSE <<>> :
           service_match \in {Search(block, "Service:")},
           blocks_match \in {Search(block, "Blocks/Lots/Units:")} })

\* consolidated_services: a dict in insertion order, as a sequence of entries
HasKey(d, k) == \E i \in 1..Len(d) : d[i].key = k

Value(d, k) == d[CHOOSE i \in 1..Len(d) : d[i].key = k].val

\* d[k] = v: a new key goes last, a known key keeps its place
Put(d, k, v) ==
    IF HasKey(d, k)
    THEN [i \in 1..Len(d) |-> IF d[i].key = k THEN [key |-> k, val |-> v] ELSE d[i]]
    ELSE Append(d, [key |-> k, val |-> v])

\* str(n) for n >= 0
RECURSIVE Str(_)
Str(n) ==
    LET digit == <<"0", "1", "2", "3", "4", "5", "6", "7", "8", "9">>[(n % 10) + 1] IN
    IF n < 10 THEN <<digit>> ELSE Str(n \div 10) \o <<digit>>

\* x in s, for strings
IsSubstring(x, s) == \E k \in 1..(Len(s) + 1) : StartsAt(s, x, k)

\* a disambiguation that always uses the counter 1
FreeCountAlwaysOne(d, count) == count

\* the while loop looking for an unused "Settlement Repairs{count}"
RECURSIVE FreeCount(_, _)
FreeCount(d, count) ==
    IF HasKey(d, <<"Settlement Repairs">> \o Str(count)) THEN FreeCount(d, count + 1)
    ELSE count

\* a merge rule that puts the newest location first
MergeNewestFirst(d, service, blocks) ==
    IF HasKey(d, service)
    THEN IF blocks # NotSpecified /\ Value(d, service) # NotSpecified
         THEN IF ~IsSubstring(blocks, Value(d, service))
              THEN Put(d, service, blocks \o <<",", " ">> \o Value(d, service))
              ELSE d
         ELSE IF blocks # NotSpecified THEN Put(d, service, blocks)
         ELSE d
    ELSE Put(d, service, blocks)

\* a merge rule without the "Not specified" tests
MergeJoinsSentinel(d, service, blocks) ==
    IF HasKey(d, service)
    THEN IF ~IsSubstring(blocks, Value(d, service))
         THEN Put(d, service, Value(d, service) \o <<",", " ">> \o blocks)
         ELSE d
    ELSE Put(d, service, blocks)

\* a merge rule that keeps only the latest real location
MergeKeepsLatest(d, service, blocks) ==
    IF HasKey(d, service)
    THEN IF blocks # NotSpecified THEN Put(d, service, blocks) ELSE d
    ELSE Put(d, service, blocks)

\* the default merge rule
Merge(d, service, blocks) ==
    IF HasKey(d, service)
    THEN IF blocks # NotSpecified /\ Value(d, service) # NotSpecified
         THEN IF ~IsSubstring(blocks, Value(d, service))
              THEN Put(d, service, Value(d, service) \o <<",", " ">> \o blocks)
              ELSE d
         ELSE IF blocks # NotSpecified THEN Put(d, service, blocks)
         ELSE d
    ELSE Put(d, service, blocks)

\* one iteration of the consolidation loop of categorize_aeon
ConsolidateAeon(d, service, blocks) ==
    IF StartsWith(service, <<"Settlement Repairs">>)
    THEN IF ~HasKey(d, service) THEN Put(d, service, blocks)
         ELSE Put(d, <<"Settlement Repairs">> \o Str(FreeCount(d, 1)), blocks)
    ELSE Merge(d, service, blocks)

\* one iteration of the consolidation loop of categorize_ae3
ConsolidateAe3(d, service, blocks) == Merge(d, service, blocks)

Consolidate(p, d, service, blocks) ==
    IF p = "AEON" THEN ConsolidateAeon(d, service, blocks)
    ELSE ConsolidateAe3(d, service, blocks)

FormatEntry(e) ==
    <<"Service:", " ">> \o e.key \o <<"\n", "Blocks/Lots/Units:", " ">> \o e.val

\* a rendering that gives the empty string for the empty map
FormatEmptyString(d) ==
    IF d = <<>> THEN <<>>
    ELSE Join([i \in 1..Len(d) |-> FormatEntry(d[i])], <<"\n", "\n">>)

\* a rendering that starts with the newest entry
FormatNewestFirst(d) ==
    IF d = <<>> THEN <<"Error in categorization">>
    ELSE Join([i \in 1..Len(d) |-> FormatEntry(d[Len(d) + 1 - i])], <<"\n", "\n">>)

Format(d) ==
    IF d = <<>> THEN <<"Error in categorization">>
    ELSE Join([i \in 1..Len(d) |-> FormatEntry(d[i])], <<"\n", "\n">>)

(***************************************************************************)
(* Inputs of the field parser: responses of at most MaxLines lines, each   *)
(* line an index token, an optional label and an optional colon and value. *)
(***************************************************************************)
IndexTokens == { <<"1">>, <<"0", "2">>, <<"-", "3">>, <<"x">> }

LabelTokens == { <<>>, <<".", " ", "W", ".">> }

ColonValues ==
    { <<>>,
      <<":", " ", "a">>,
      <<" ", ":", " ", " ", "a", ":", "b", " ">>,
      <<":">> }

LineTexts == { i \o l \o c : i \in IndexTokens, l \in LabelTokens, c \in ColonValues }

ResponseTexts ==
    { Join(ls, <<"\n">>) : ls \in UNION { [1..k -> LineTexts] : k \in 0..MaxLines } }

RouterIdle ==
    /\ df = <<>>
    /\ idx = 0
    /\ categorized_data = <<>>
    /\ ui = 0
    /\ rpc = "idle"

\* Python values other than strings of symbols: None, an int, a float (by
\* its repr), a str
PyNone == [type |-> "NoneType"]

PyIntValue(n) == [type |-> "int", val |-> n]

PyFloatValue(zero, repr) == [type |-> "float", zero |-> zero, repr |-> repr]

PyStr(t) == [type |-> "str", text |-> t]

YearIdle ==
    /\ year_value = PyNone
    /\ year_val = PyNone
    /\ ypc = "idle"

ExtractIdle ==
    /\ attempt = 0
    /\ api_calls = 0
    /\ message = "unbound"
    /\ waits = <<>>
    /\ data = "unset"
    /\ inserted = 0
    /\ processed = "idle"
    /\ epc = "idle"

OcrIdle ==
    /\ jobs = <<>>
    /\ active_ocr_jobs = 0
    /\ ocr_requests_total = [success |-> 0, failure |-> 0]

AgainIdle ==
    /\ run = 0
    /\ first_output = <<>>

LoggerIdle ==
    /\ correlation_id = 0
    /\ contexts = <<>>
    /\ log_entries = <<>>

NumbersIdle ==
    /\ raw_value = <<>>
    /\ hours_text = <<>>
    /\ number = None
    /\ path = "none"
    /\ npc = "idle"

FieldsIdle ==
    /\ response_text = <<>>
    /\ lines = <<>>
    /\ li = 0
    /\ extracted_fields = EmptyDict
    /\ fpc = "idle"

ServicesIdle ==
    /\ fields = EmptyDict
    /\ services = <<>>
    /\ spc = "idle"

CatIdle ==
    /\ profile = "none"
    /\ result = <<>>
    /\ service_blocks = <<>>
    /\ bi = 0
    /\ parsed_services = <<>>
    /\ ci = 0
    /\ consolidated_services = <<>>
    /\ output = <<>>
    /\ cpc = "idle"

InitFields ==
    /\ response_text \in ResponseTexts
    /\ lines = <<>>
    /\ li = 0
    /\ extracted_fields = EmptyDict
    /\ fpc = "start"
    /\ ServicesIdle
    /\ CatIdle
    /\ NumbersIdle
    /\ RouterIdle
    /\ YearIdle
    /\ ExtractIdle
    /\ OcrIdle
    /\ AgainIdle
    /\ LoggerIdle

\* lines = response_text.strip().split('\n')
SplitLines ==
    /\ fpc = "start"
    /\ lines' = Only({ Split(t, "\n") : t \in {Strip(response_text)} })
    /\ li' = 1
    /\ fpc' = "parsing"
    /\ UNCHANGED <<response_text, extracted_fields, saVars, catVars, numVars, rtVars, yrVars, exVars, ocrVars, agVars, logVars>>

\* a loop body that cannot step over a blank line
ParseNextStopsAtBlank ==
    /\ fpc = "parsing"
    /\ li <= Len(lines)
    /\ Strip(lines[li]) # <<>>
    /\ extracted_fields' = ParseLine(extracted_fields, lines[li])
    /\ li' = li + 1
    /\ UNCHANGED <<response_text, lines, fpc, saVars, catVars, numVars, rtVars, yrVars, exVars, ocrVars, agVars, logVars>>

\* the body of the loop, for the line at position li
ParseNext ==
    /\ fpc = "parsing"
    /\ li <= Len(lines)
    /\ extracted_fields' = ParseLine(extracted_fields, lines[li])
    /\ li' = li + 1
    /\ UNCHANGED <<response_text, lines, fpc, saVars, catVars, numVars, rtVars, yrVars, exVars, ocrVars, agVars, logVars>>

\* the loop is exhausted
ParseDone ==
    /\ fpc = "parsing"
    /\ li > Len(lines)
    /\ fpc' = "done"
    /\ UNCHANGED <<response_text, lines, li, extracted_fields, saVars, catVars, numVars, rtVars, yrVars, exVars, ocrVars, agVars, logVars>>

NextFields == SplitLines \/ ParseNext \/ ParseDone

SpecFields == InitFields /\ [][NextFields]_vars

(***************************************************************************)
(* Inputs of the service assembler: a FieldMap over the indices 8..35.     *)
(* One slot takes every combination of missing, blank, "N/A" and real      *)
(* values at its service-type and date positions; the other three slots    *)
(* are each all "N/A" or hold both lines.                                  *)
(***************************************************************************)
Missing == <<"(missing)">>

SlotName(k) == <<"S", <<"1", "2", "3", "4">>[k]>>

\* the seven fields of slot k, absent keys left out
SlotFields(k, svc, d1, d2, nums) ==
    LET b == SlotBases[k]
        all == (b :> svc) @@ ((b + 1) :> d1) @@ ((b + 2) :> nums.q)
                 @@ ((b + 3) :> nums.h) @@ ((b + 4) :> d2)
                 @@ ((b + 5) :> nums.q) @@ ((b + 6) :> nums.h)
        keep == { x \in DOMAIN all : all[x] # Missing }
    IN  [x \in keep |-> all[x]]

DateVals == { Missing, <<>>, NA, <<"1", "6">> }

ContinuationDateVals == { Missing, <<>>, NA, <<"1", "7">> }

NumberFills ==
    { [q |-> <<"X", "1">>, h |-> <<"1", "0", " ", "e", "a", "c", "h">>],
      [q |-> NA, h |-> Missing] }

FreeSlots(k, nums) ==
    { SlotFields(k, svc, d1, d2, nums) :
        svc \in { Missing, <<>>, NA, SlotName(k) },
        d1 \in DateVals, d2 \in ContinuationDateVals }

TypicalSlots(k, nums) ==
    { SlotFields(k, NA, NA, NA, nums),
      SlotFields(k, SlotName(k), <<"1", "6">>, <<"1", "7">>, nums) }

\* slot k of the map: free takes every combination, the others a typical one
SlotChoices(k, free, nums) ==
    IF k = free THEN FreeSlots(k, nums) ELSE TypicalSlots(k, nums)

FieldMaps ==
    UNION { { f1 @@ f2 @@ f3 @@ f4 :
                f1 \in SlotChoices(1, free, nums), f2 \in SlotChoices(2, free, nums),
                f3 \in SlotChoices(3, free, nums), f4 \in SlotChoices(4, free, nums) } :
            free \in 1..4, nums \in NumberFills }

InitServices ==
    /\ fields \in FieldMaps
    /\ services = <<>>
    /\ spc = "start"
    /\ FieldsIdle
    /\ CatIdle
    /\ NumbersIdle
    /\ RouterIdle
    /\ YearIdle
    /\ ExtractIdle
    /\ OcrIdle
    /\ AgainIdle
    /\ LoggerIdle

\* extract_services(fields), up to its return
ExtractServices ==
    /\ spc = "start"
    /\ services' = extract_services(fields)
    /\ spc' = IF services' = <<>> THEN "returned None" ELSE "returned services"
    /\ UNCHANGED <<fields, fpVars, catVars, numVars, rtVars, yrVars, exVars, ocrVars, agVars, logVars>>

NextServices == ExtractServices

SpecServices == InitServices /\ [][NextServices]_vars

(***************************************************************************)
(* Inputs of the categorizers.  ParagraphTexts vary the shape of a         *)
(* response: a service line (or none), a location line (or none, or free   *)
(* text), paragraphs joined by a blank line.  BlockTexts are well-formed   *)
(* blocks that vary the label and the location.                            *)
(***************************************************************************)
ServiceLines ==
    { <<>>,
      <<"Service:", " ", "Straw Installation">>,
      <<"Service:", " ", " ", "Digging A Trench", " ">>,
      <<"Service:">> }

LocationLines ==
    { <<>>,
      <<"Blocks/Lots/Units:", " ", "Lot", " ", "1">>,
      <<"Blocks/Lots/Units:">>,
      <<"Lot", " ", "2">> }

ParagraphTexts ==
    { IF sl = <<>> \/ ll = <<>> THEN sl \o ll ELSE sl \o <<"\n">> \o ll :
        sl \in ServiceLines, ll \in LocationLines }

ShapeResponses ==
    { Join(ps, <<"\n", "\n">>) :
        ps \in UNION { [1..k -> ParagraphTexts] : k \in 0..MaxParagraphs } }

Labels ==
    { <<"Straw Installation">>, <<"Settlement Repairs">>,
      <<"Settlement Repairs", "1">>, <<"Digging A Trench">> }

Locations == { <<>>, <<"Lot", " ", "1">>, <<"Lot", " ", "2">> }

BlockTexts ==
    { <<"Service:", " ">> \o l \o
        (IF loc = <<>> THEN <<>> ELSE <<"\n", "Blocks/Lots/Units:", " ">> \o loc) :
        l \in Labels, loc \in Locations }

PairResponses ==
    { Join(bs, <<"\n", "\n">>) :
        bs \in UNION { [1..k -> BlockTexts] : k \in 0..MaxBlocks } }

\* one located block per label, the labels varied
LabelTexts ==
    { <<"Straw Installation">>, <<"Sod Removal">>, <<"Rough Grade">>,
      <<"Settlement Repairs">>, <<"Settlement Repairs", " ", "(", "x", ")">>,
      <<"Digging A Trench">>,
      <<"Miscellaneous">>, <<"Miscellaneous", " ", "(", "Digging A Trench", ")">>,
      <<"Haul From Lots">>, <<"Haul To Lots">>, <<"Loading Fill To Stockpile">>,
      <<"Loading Fill From Stockpile">>, <<"Loading Fill From Lots">> }

LabelResponses ==
    { Join(bs, <<"\n", "\n">>) :
        bs \in UNION { [1..k -> { <<"Service:", " ">> \o l \o
                                    <<"\n", "Blocks/Lots/Units:", " ", "Lot", " ", "1">> :
                                  l \in LabelTexts }] : k \in 0..MaxLabelBlocks } }

InitCat ==
    /\ profile \in {"AEON", "AE3"}
    /\ result = <<>>
    /\ service_blocks = <<>>
    /\ bi = 0
    /\ parsed_services = <<>>
    /\ ci = 0
    /\ consolidated_services = <<>>
    /\ output = <<>>
    /\ cpc = "call"
    /\ FieldsIdle
    /\ ServicesIdle
    /\ NumbersIdle
    /\ RouterIdle
    /\ YearIdle
    /\ ExtractIdle
    /\ OcrIdle
    /\ AgainIdle
    /\ LoggerIdle

\* anthropic_client.messages.create returns; result = response.content[0].text
OracleReplies(texts) ==
    /\ cpc = "call"
    /\ result' \in texts
    /\ cpc' = "split"
    /\ UNCHANGED <<profile, service_blocks, bi, parsed_services, ci,
                   consolidated_services, output, fpVars, saVars, numVars, rtVars, yrVars, exVars, ocrVars, agVars, logVars>>

\* the call raises: the except clause returns the error string
\* str(e) of the exception caught
ExceptionTexts == { <<>>, <<"(exception text)">> }

OracleFails ==
    /\ cpc = "call"
    /\ output' \in { <<"Error in categorization", ":", " ">> \o msg : msg \in ExceptionTexts }
    /\ cpc' = "returned"
    /\ UNCHANGED <<profile, result, service_blocks, bi, parsed_services, ci,
                   consolidated_services, fpVars, saVars, numVars, rtVars, yrVars, exVars, ocrVars, agVars, logVars>>

\* service_blocks = re.split(r'\n\n(?=Service:)', result.strip())
SplitBlocks ==
    /\ cpc = "split"
    /\ service_blocks' = Only({ ReSplit(t, <<>>) : t \in {Strip(result)} })
    /\ bi' = 1
    /\ cpc' = "parse"
    /\ UNCHANGED <<profile, result, parsed_services, ci, consolidated_services,
                   output, fpVars, saVars, numVars, rtVars, yrVars, exVars, ocrVars, agVars, logVars>>

\* a loop body that puts the newest pair first
ParseBlockNewestFirst ==
    /\ cpc = "parse"
    /\ bi <= Len(service_blocks)
    /\ parsed_services' = BlockPairs(profile, service_blocks[bi]) \o parsed_services
    /\ bi' = bi + 1
    /\ UNCHANGED <<profile, result, service_blocks, ci, consolidated_services,
                   output, cpc, fpVars, saVars, numVars, rtVars, yrVars, exVars, ocrVars, agVars, logVars>>

\* one iteration of "for block in service_blocks"
ParseBlock ==
    /\ cpc = "parse"
    /\ bi <= Len(service_blocks)
    /\ parsed_services' = parsed_services \o BlockPairs(profile, service_blocks[bi])
    /\ bi' = bi + 1
    /\ UNCHANGED <<profile, result, service_blocks, ci, consolidated_services,
                   output, cpc, fpVars, saVars, numVars, rtVars, yrVars, exVars, ocrVars, agVars, logVars>>

\* the block loop is exhausted; consolidated_services = {}
ParseBlocksDone ==
    /\ cpc = "parse"
    /\ bi > Len(service_blocks)
    /\ consolidated_services' = <<>>
    /\ ci' = 1
    /\ cpc' = "consolidate"
    /\ UNCHANGED <<profile, result, service_blocks, bi, parsed_services,
                   output, fpVars, saVars, numVars, rtVars, yrVars, exVars, ocrVars, agVars, logVars>>

\* one iteration of "for service, blocks in parsed_services"
ConsolidatePair ==
    /\ cpc = "consolidate"
    /\ ci <= Len(parsed_services)
    /\ consolidated_services' =
          Consolidate(profile, consolidated_services,
                      parsed_services[ci].service, parsed_services[ci].blocks)
    /\ ci' = ci + 1
    /\ UNCHANGED <<profile, result, service_blocks, bi, parsed_services,
                   output, cpc, fpVars, saVars, numVars, rtVars, yrVars, exVars, ocrVars, agVars, logVars>>

\* the formatting loop and the return
FormatOutput ==
    /\ cpc = "consolidate"
    /\ ci > Len(parsed_services)
    /\ output' = Format(consolidated_services)
    /\ cpc' = "returned"
    /\ UNCHANGED <<profile, result, service_blocks, bi, parsed_services, ci,
                   consolidated_services, fpVars, saVars, numVars, rtVars, yrVars, exVars, ocrVars, agVars, logVars>>

Categorize ==
    \/ OracleFails
    \/ SplitBlocks
    \/ ParseBlock
    \/ ParseBlocksDone
    \/ ConsolidatePair
    \/ FormatOutput

NextShapes == OracleReplies(ShapeResponses) \/ Categorize

NextPairs == OracleReplies(PairResponses) \/ Categorize

NextLabels == OracleReplies(LabelResponses) \/ Categorize

\* responses of varied shape
SpecShapes == InitCat /\ [][NextShapes]_vars

\* well-formed responses of varied labels and locations
SpecPairs == InitCat /\ [][NextPairs]_vars

\* located blocks of varied labels
SpecLabels == InitCat /\ [][NextLabels]_vars

(***************************************************************************)
(* The post-processing of a categorizer run a second time, on the string   *)
(* the first run returned: run is the number of the run, first_output the  *)
(* string the first run returned.                                          *)
(***************************************************************************)
AgainResponses == ShapeResponses \cup LabelResponses

InitAgain ==
    /\ profile \in {"AEON", "AE3"}
    /\ result = <<>>
    /\ service_blocks = <<>>
    /\ bi = 0
    /\ parsed_services = <<>>
    /\ ci = 0
    /\ consolidated_services = <<>>
    /\ output = <<>>
    /\ cpc = "call"
    /\ run = 1
    /\ first_output = <<>>
    /\ FieldsIdle
    /\ ServicesIdle
    /\ NumbersIdle
    /\ RouterIdle
    /\ YearIdle
    /\ ExtractIdle
    /\ OcrIdle
    /\ LoggerIdle

\* the first run has returned a formatted map: the steps after the call of
\* the oracle start again with result = the returned string
RunAgain ==
    /\ run = 1
    /\ cpc = "returned"
    /\ bi > 0
    /\ output # <<"Error in categorization">>
    /\ first_output' = output
    /\ run' = 2
    /\ result' = output
    /\ service_blocks' = <<>>
    /\ bi' = 0
    /\ parsed_services' = <<>>
    /\ ci' = 0
    /\ consolidated_services' = <<>>
    /\ output' = <<>>
    /\ cpc' = "split"
    /\ UNCHANGED <<profile, fpVars, saVars, numVars, rtVars, yrVars, exVars,
                   ocrVars, logVars>>

NextAgain == OracleReplies(AgainResponses) \/ Categorize \/ RunAgain

SpecAgain == InitAgain /\ [][NextAgain]_vars

(***************************************************************************)
(* The numeric coercions.  OCRService._safe_float is the coercion of the   *)
(* JSON extraction path (ocr_service.py), safe_float and clean_hours the   *)
(* ones of the numbered-field path (process_pdfs_to_bigquery.py).          *)
(***************************************************************************)
\* OCRService._safe_float(value), for a string value
OCRService_safe_float(value) ==
    IF value = <<>> THEN Num(0, 0)
    ELSE LET r == PyFloat(value) IN IF r.kind = "error" THEN Num(0, 0) ELSE r

\* the digit strings of 1 to n digits over three digits
RECURSIVE DigitTexts(_)
DigitTexts(n) ==
    IF n = 0 THEN {}
    ELSE { <<c>> : c \in {"0", "1", "7"} }
         \cup { Append(t, c) : t \in DigitTexts(n - 1), c \in {"0", "1", "7"} }

UnitSuffixes ==
    { <<>>, <<" ", "e", "a", "c", "h">>, <<" ", "/", "e", "a", "c", "h">>,
      <<"/", "e", "a", "c", "h">>, <<" ", "m", "a", "n">>,
      <<" ", "/", "m", "a", "n">>, <<"/", "m", "a", "n">> }

\* hours values as the forms hold them: a number and a unit suffix
HoursTexts == { n \o u : n \in DigitTexts(MaxDigits), u \in UnitSuffixes }

\* values that are no number or hold a unit inside the text
OddTexts ==
    { <<>>,
      <<"X", "1">>,
      <<"N", "/", "A">>,
      <<"a", "b", "c">>,
      <<"1", " ", "0">>,
      <<"1", ".", "5">>,
      <<"1", ".", "2", ".", "3">>,
      <<"1", "e">>,
      <<"-", "2">>,
      <<" ", "7", " ">>,
      <<"n", "a", "n">>,
      <<"i", "n", "f">>,
      <<"1", "/", "e", "a", "c", "h", "2">>,
      <<"1", " ", "e", "a", "c", "h", " ", "2">>,
      <<"1", " ", "m", "a", "n", "2">>,
      <<"e", "a", "c", "h">>,
      <<"/", "m", "a", "n">>,
      <<"1", " ", "e", "a", "c", "h", " ", "e", "a", "c", "h">>,
      <<"1", " ", " ", "e", "a", "c", "h">>,
      <<"1", " ", "/", " ", "e", "a", "c", "h">>,
      <<"1", "0", "e", "a", "c", "h">>,
      <<"1", " ", "m", "a", "n", "u", "a", "l">> }

ValueTexts == HoursTexts \cup OddTexts

InitNumbers ==
    /\ raw_value \in ValueTexts
    /\ path \in {"hours", "quantity", "ocr"}
    /\ hours_text = <<>>
    /\ number = None
    /\ npc = "start"
    /\ FieldsIdle
    /\ ServicesIdle
    /\ CatIdle
    /\ RouterIdle
    /\ YearIdle
    /\ ExtractIdle
    /\ OcrIdle
    /\ AgainIdle
    /\ LoggerIdle

\* clean_hours(fields.get(k, "")), the inner call of extract_services
CleanHours ==
    /\ npc = "start"
    /\ path = "hours"
    /\ hours_text' = clean_hours(raw_value)
    /\ npc' = "cleaned"
    /\ UNCHANGED <<raw_value, number, path, fpVars, saVars, catVars, rtVars, yrVars, exVars, ocrVars, agVars, logVars>>

\* safe_float(clean_hours(...)), the "hours" of an item
CoerceHours ==
    /\ npc = "cleaned"
    /\ number' = safe_float(hours_text)
    /\ npc' = "coerced"
    /\ UNCHANGED <<raw_value, hours_text, path, fpVars, saVars, catVars, rtVars, yrVars, exVars, ocrVars, agVars, logVars>>

\* safe_float(fields.get(k, "")), the "quantity" of an item
CoerceQuantity ==
    /\ npc = "start"
    /\ path = "quantity"
    /\ number' = safe_float(raw_value)
    /\ npc' = "coerced"
    /\ UNCHANGED <<raw_value, hours_text, path, fpVars, saVars, catVars, rtVars, yrVars, exVars, ocrVars, agVars, logVars>>

\* self._safe_float(service.get(...)) in OCRService._process_extracted_data
CoerceOcr ==
    /\ npc = "start"
    /\ path = "ocr"
    /\ number' = OCRService_safe_float(raw_value)
    /\ npc' = "coerced"
    /\ UNCHANGED <<raw_value, hours_text, path, fpVars, saVars, catVars, rtVars, yrVars, exVars, ocrVars, agVars, logVars>>

NextNumbers == CleanHours \/ CoerceHours \/ CoerceQuantity \/ CoerceOcr

SpecNumbers == InitNumbers /\ [][NextNumbers]_vars

(***************************************************************************)
(* safe_int, the conversion of the year field                              *)
(***************************************************************************)
\* "not value"
Falsy(value) ==
    CASE value.type = "NoneType" -> TRUE
      [] value.type = "int" -> value.val = 0
      [] value.type = "float" -> value.zero
      [] value.type = "str" -> value.text = <<>>

\* str(value)
StrOf(value) ==
    CASE value.type = "NoneType" -> <<"N", "o", "n", "e">>
      [] value.type = "int" ->
            IF value.val < 0 THEN <<"-">> \o Str(0 - value.val) ELSE Str(value.val)
      [] value.type = "float" -> value.repr
      [] value.type = "str" -> value.text

\* safe_int(value); the bare except turns every exception into None
safe_int(value) ==
    IF Falsy(value) \/ value = PyStr(NA) THEN PyNone
    ELSE Only({ IF ~r.ok THEN PyNone
                ELSE IF r.val < 100 THEN PyIntValue(r.val + 2000)
                ELSE PyIntValue(r.val) :
                r \in {PyInt(Strip(StrOf(value)))} })

\* the year strings of the tests and strings around them
YearTexts ==
    { <<>>, NA, <<"1", "8">>, <<"1", "4">>, <<"2", "0", "1", "8">>,
      <<" ", "1", "8", " ">>, <<"+", "1", "8">>, <<"-", "5">>, <<"1", "_", "8">>,
      <<"1", "8", ".", "0">>, <<"9", "9">>, <<"1", "0", "0">>, <<" ">>, <<"x">>,
      <<"2", "0", "1", "8", "x">>, <<"N", "o", "n", "e">> }
    \cup DigitTexts(MaxDigits + 2)

YearValues ==
    { PyNone }
    \cup { PyIntValue(n) : n \in {0 - 1, 0, 1, 18, 99, 100, 101, 2018} }
    \cup { PyFloatValue(TRUE, <<"0", ".", "0">>),
           PyFloatValue(FALSE, <<"1", "8", ".", "0">>),
           PyFloatValue(FALSE, <<"2", "0", "1", "8", ".", "5">>) }
    \cup { PyStr(t) : t \in YearTexts }

InitYear ==
    /\ year_value \in YearValues
    /\ year_val = PyNone
    /\ ypc = "start"
    /\ FieldsIdle
    /\ ServicesIdle
    /\ CatIdle
    /\ NumbersIdle
    /\ RouterIdle
    /\ ExtractIdle
    /\ OcrIdle
    /\ AgainIdle
    /\ LoggerIdle

\* "year": safe_int(extracted_fields.get(5, ""))
SafeInt ==
    /\ ypc = "start"
    /\ year_val' = safe_int(year_value)
    /\ ypc' = "returned"
    /\ UNCHANGED <<year_value, fpVars, saVars, catVars, numVars, rtVars, exVars, ocrVars, agVars, logVars>>

NextYear == SafeInt

SpecYear == InitYear /\ [][NextYear]_vars

(***************************************************************************)
(* The parsing core: either the numbered-field loop runs on a response or  *)
(* a categorizer runs on a description.  Both are straight-line loops over *)
(* finite sequences, so a step that can be taken is taken.                 *)
(***************************************************************************)
InitCore == InitFields \/ InitCat

NextCore == NextFields \/ NextShapes

SpecCore == InitCore /\ [][NextCore]_vars /\ WF_vars(NextCore)

(***************************************************************************)
(* process_pdf_to_bigquery and the retry loop of extract_data_with_claude. *)
(* api_calls counts the calls of anthropic_client.messages.create, message *)
(* is the local the result of a call is bound to, waits lists the          *)
(* arguments of time.sleep, data is what extract_data_with_claude          *)
(* returns ("None" or "dict", the dict being built from extracted_fields), *)
(* inserted counts the rows handed to insert_rows_json without errors, and *)
(* processed is the return value of process_pdf_to_bigquery.               *)
(***************************************************************************)
\* max_retries = 3
max_retries == 3

RECURSIVE Pow2(_)
Pow2(n) == IF n = 0 THEN 1 ELSE 2 * Pow2(n - 1)

\* wait_time = (2 ** attempt) * 5
wait_time(n) == Pow2(n) * 5

\* the texts of the messages the oracle returns
ExtractResponses ==
    { <<>>,
      <<"x">>,
      <<"1", ":", " ", "a">>,
      <<"1", ":", " ", "a", "\n", "0", "2", ".", " ", "W", ".", ":", " ", "a">>,
      <<"0", "2", ":", " ", "a", "\n", "x", ":", " ", "a">>,
      <<"1", ":", " ", "a", "\n", "1", ":">> }

InitExtract ==
    /\ attempt = 0
    /\ api_calls = 0
    /\ message = "unbound"
    /\ waits = <<>>
    /\ data = "unset"
    /\ inserted = 0
    /\ processed = "running"
    /\ epc = "call"
    /\ FieldsIdle
    /\ ServicesIdle
    /\ CatIdle
    /\ NumbersIdle
    /\ RouterIdle
    /\ YearIdle
    /\ OcrIdle
    /\ AgainIdle
    /\ LoggerIdle

\* a loop that tries again after the last failure
CallFailsRetriesForever ==
    /\ epc = "call"
    /\ api_calls < max_retries + 2
    /\ api_calls' = api_calls + 1
    /\ waits' = Append(waits, wait_time(attempt))
    /\ attempt' = attempt + 1
    /\ UNCHANGED <<message, data, inserted, processed, epc, fpVars, saVars,
                   catVars, numVars, rtVars, yrVars, ocrVars, agVars, logVars>>

\* messages.create raises: a warning and a sleep before the next attempt, or
\* after the last attempt the exception leaves the loop and the outer
\* except clause returns None
CallFails ==
    /\ epc = "call"
    /\ attempt < max_retries
    /\ api_calls' = api_calls + 1
    /\ IF attempt < max_retries - 1
       THEN /\ waits' = Append(waits, wait_time(attempt))
            /\ attempt' = attempt + 1
            /\ UNCHANGED <<data, epc, ocrVars, agVars, logVars>>
       ELSE /\ data' = "None"
            /\ epc' = "returned"
            /\ UNCHANGED <<waits, attempt, ocrVars, agVars, logVars>>
    /\ UNCHANGED <<message, inserted, processed, fpVars, saVars, catVars,
                   numVars, rtVars, yrVars, ocrVars, agVars, logVars>>

\* messages.create returns: break; response_text = message.content[0].text
CallSucceeds ==
    /\ epc = "call"
    /\ attempt < max_retries
    /\ api_calls' = api_calls + 1
    /\ message' = "text"
    /\ response_text' \in ExtractResponses
    /\ fpc' = "start"
    /\ epc' = "parse"
    /\ UNCHANGED <<attempt, waits, data, inserted, processed, lines, li,
                   extracted_fields, saVars, catVars, numVars, rtVars, yrVars, ocrVars, agVars, logVars>>

\* messages.create returns a message without content: message.content[0]
\* raises, and the outer except clause returns None
CallSucceedsWithoutText ==
    /\ epc = "call"
    /\ attempt < max_retries
    /\ api_calls' = api_calls + 1
    /\ message' = "no content"
    /\ data' = "None"
    /\ epc' = "returned"
    /\ UNCHANGED <<attempt, waits, inserted, processed, fpVars, saVars, catVars,
                   numVars, rtVars, yrVars, ocrVars, agVars, logVars>>

\* the parsing loop on response_text
ParseResponse ==
    /\ epc = "parse"
    /\ NextFields

\* the parsing loop is over: the dict of the 35 fields is returned
ReturnFields ==
    /\ epc = "parse"
    /\ fpc = "done"
    /\ data' = "dict"
    /\ epc' = "returned"
    /\ UNCHANGED <<attempt, api_calls, message, waits, inserted, processed, fpVars,
                   saVars, catVars, numVars, rtVars, yrVars, ocrVars, agVars, logVars>>

\* process_pdf_to_bigquery: "if not data: return False"
NoData ==
    /\ epc = "returned"
    /\ data = "None"
    /\ processed' = "False"
    /\ epc' = "done"
    /\ UNCHANGED <<attempt, api_calls, message, waits, data, inserted, fpVars, saVars,
                   catVars, numVars, rtVars, yrVars, ocrVars, agVars, logVars>>

\* insert_rows_json returns no errors: return True
InsertRow ==
    /\ epc = "returned"
    /\ data = "dict"
    /\ inserted' = inserted + 1
    /\ processed' = "True"
    /\ epc' = "done"
    /\ UNCHANGED <<attempt, api_calls, message, waits, data, fpVars, saVars, catVars,
                   numVars, rtVars, yrVars, ocrVars, agVars, logVars>>

\* insert_rows_json returns errors: return False
InsertErrors ==
    /\ epc = "returned"
    /\ data = "dict"
    /\ processed' = "False"
    /\ epc' = "done"
    /\ UNCHANGED <<attempt, api_calls, message, waits, data, inserted, fpVars, saVars,
                   catVars, numVars, rtVars, yrVars, ocrVars, agVars, logVars>>

NextExtract ==
    \/ CallFails
    \/ CallSucceeds
    \/ CallSucceedsWithoutText
    \/ ParseResponse
    \/ ReturnFields
    \/ NoData
    \/ InsertRow
    \/ InsertErrors

SpecExtract == InitExtract /\ [][NextExtract]_vars

(***************************************************************************)
(* OCRService.extract_from_pdf, run by the threads process_batch_async     *)
(* starts (asyncio.to_thread), one per file.  jobs[t] is the state of the  *)
(* call of thread t: its position, the attempt of the retry loop of        *)
(* _extract_with_claude, the number of its calls of _call_claude_api, the  *)
(* number of its sleeps, the kind of the exception caught last, whether    *)
(* its publish failed, and how it ended.  active_ocr_jobs and              *)
(* ocr_requests_total are the process-wide prometheus metrics; inc and dec *)
(* of a prometheus metric are atomic (the value is guarded by a lock).     *)
(***************************************************************************)
Jobs == 1..MaxJobs

\* "for attempt in range(3)" and "if attempt == 2"
LastAttempt == 2

NewJob ==
    [pc |-> "created", attempt |-> 0, calls |-> 0, sleeps |-> 0,
     error |-> "none", publish_failed |-> FALSE, outcome |-> "running"]

InitOcr ==
    /\ jobs = [t \in Jobs |-> NewJob]
    /\ active_ocr_jobs = 0
    /\ ocr_requests_total = [success |-> 0, failure |-> 0]
    /\ FieldsIdle
    /\ ServicesIdle
    /\ CatIdle
    /\ NumbersIdle
    /\ RouterIdle
    /\ YearIdle
    /\ ExtractIdle
    /\ AgainIdle
    /\ LoggerIdle

OcrRest == <<fpVars, saVars, catVars, numVars, rtVars, yrVars, exVars>>

\* thread t moves to pc, with the fields of its job changed as given
Goes(t, job) == jobs' = [jobs EXCEPT ![t] = job]

\* active_ocr_jobs.inc()
Begin(t) ==
    /\ jobs[t].pc = "created"
    /\ active_ocr_jobs' = active_ocr_jobs + 1
    /\ Goes(t, [jobs[t] EXCEPT !.pc = "download"])
    /\ UNCHANGED <<ocr_requests_total, OcrRest, agVars, logVars>>

\* _download_from_gcs returns
Download(t) ==
    /\ jobs[t].pc = "download"
    /\ Goes(t, [jobs[t] EXCEPT !.pc = "convert"])
    /\ UNCHANGED <<active_ocr_jobs, ocr_requests_total, OcrRest, agVars, logVars>>

\* _download_from_gcs raises
DownloadFails(t) ==
    /\ jobs[t].pc = "download"
    /\ Goes(t, [jobs[t] EXCEPT !.pc = "except", !.error = "download"])
    /\ UNCHANGED <<active_ocr_jobs, ocr_requests_total, OcrRest, agVars, logVars>>

\* _extract_with_claude up to the retry loop: the first page is encoded
Convert(t) ==
    /\ jobs[t].pc = "convert"
    /\ Goes(t, [jobs[t] EXCEPT !.pc = "call"])
    /\ UNCHANGED <<active_ocr_jobs, ocr_requests_total, OcrRest, agVars, logVars>>

\* convert_from_path raises, or "No pages found in PDF"
ConvertFails(t) ==
    /\ jobs[t].pc = "convert"
    /\ Goes(t, [jobs[t] EXCEPT !.pc = "except", !.error = "convert"])
    /\ UNCHANGED <<active_ocr_jobs, ocr_requests_total, OcrRest, agVars, logVars>>

\* the except clause of the retry loop, for an exception of the given kind:
\* raise after the last attempt, else a warning, a sleep and the next attempt
Retried(job, kind) ==
    IF job.attempt = LastAttempt
    THEN [job EXCEPT !.pc = "except", !.error = kind]
    ELSE [job EXCEPT !.pc = "call", !.error = kind, !.attempt = @ + 1,
                     !.sleeps = @ + 1]

\* _call_claude_api returns the text of the message
CallApi(t) ==
    /\ jobs[t].pc = "call"
    /\ Goes(t, [jobs[t] EXCEPT !.pc = "parse", !.calls = @ + 1])
    /\ UNCHANGED <<active_ocr_jobs, ocr_requests_total, OcrRest, agVars, logVars>>

\* _call_claude_api raises
CallApiFails(t) ==
    /\ jobs[t].pc = "call"
    /\ Goes(t, Retried([jobs[t] EXCEPT !.calls = @ + 1], "api"))
    /\ UNCHANGED <<active_ocr_jobs, ocr_requests_total, OcrRest, agVars, logVars>>

\* _parse_claude_response returns the data
ParseJson(t) ==
    /\ jobs[t].pc = "parse"
    /\ Goes(t, [jobs[t] EXCEPT !.pc = "process"])
    /\ UNCHANGED <<active_ocr_jobs, ocr_requests_total, OcrRest, agVars, logVars>>

\* _parse_claude_response raises (the response is not JSON): the exception
\* is caught by the except clause of the retry loop
ParseJsonFails(t) ==
    /\ jobs[t].pc = "parse"
    /\ Goes(t, Retried(jobs[t], "parse"))
    /\ UNCHANGED <<active_ocr_jobs, ocr_requests_total, OcrRest, agVars, logVars>>

\* _process_extracted_data returns the work order
Process(t) ==
    /\ jobs[t].pc = "process"
    /\ Goes(t, [jobs[t] EXCEPT !.pc = "publish"])
    /\ UNCHANGED <<active_ocr_jobs, ocr_requests_total, OcrRest, agVars, logVars>>

\* _process_extracted_data raises (the JSON value is not an object)
ProcessFails(t) ==
    /\ jobs[t].pc = "process"
    /\ Goes(t, [jobs[t] EXCEPT !.pc = "except", !.error = "process"])
    /\ UNCHANGED <<active_ocr_jobs, ocr_requests_total, OcrRest, agVars, logVars>>

\* _publish_extraction_result: the publish completes
Publish(t) ==
    /\ jobs[t].pc = "publish"
    /\ Goes(t, [jobs[t] EXCEPT !.pc = "success"])
    /\ UNCHANGED <<active_ocr_jobs, ocr_requests_total, OcrRest, agVars, logVars>>

\* a publish whose failure leaves _publish_extraction_result
PublishFailsRaises(t) ==
    /\ jobs[t].pc = "publish"
    /\ Goes(t, [jobs[t] EXCEPT !.pc = "except", !.error = "publish",
                               !.publish_failed = TRUE])
    /\ UNCHANGED <<active_ocr_jobs, ocr_requests_total, OcrRest, agVars, logVars>>

\* _publish_extraction_result: the publish fails; the error is logged
PublishFails(t) ==
    /\ jobs[t].pc = "publish"
    /\ Goes(t, [jobs[t] EXCEPT !.pc = "success", !.publish_failed = TRUE])
    /\ UNCHANGED <<active_ocr_jobs, ocr_requests_total, OcrRest, agVars, logVars>>

\* ocr_requests_total.labels(status='success').inc(); return work_order
CountSuccess(t) ==
    /\ jobs[t].pc = "success"
    /\ ocr_requests_total' = [ocr_requests_total EXCEPT !.success = @ + 1]
    /\ Goes(t, [jobs[t] EXCEPT !.pc = "finally", !.outcome = "returned"])
    /\ UNCHANGED <<active_ocr_jobs, OcrRest, agVars, logVars>>

\* except Exception: ocr_requests_total.labels(status='failure').inc(); raise
CountFailure(t) ==
    /\ jobs[t].pc = "except"
    /\ ocr_requests_total' = [ocr_requests_total EXCEPT !.failure = @ + 1]
    /\ Goes(t, [jobs[t] EXCEPT !.pc = "finally", !.outcome = "raised"])
    /\ UNCHANGED <<active_ocr_jobs, OcrRest, agVars, logVars>>

\* finally: active_ocr_jobs.dec()
Finally(t) ==
    /\ jobs[t].pc = "finally"
    /\ active_ocr_jobs' = active_ocr_jobs - 1
    /\ Goes(t, [jobs[t] EXCEPT !.pc = "ended"])
    /\ UNCHANGED <<ocr_requests_total, OcrRest, agVars, logVars>>

NextOcr ==
    \E t \in Jobs :
        \/ Begin(t)
        \/ Download(t)
        \/ DownloadFails(t)
        \/ Convert(t)
        \/ ConvertFails(t)
        \/ CallApi(t)
        \/ CallApiFails(t)
        \/ ParseJson(t)
        \/ ParseJsonFails(t)
        \/ Process(t)
        \/ ProcessFails(t)
        \/ Publish(t)
        \/ PublishFails(t)
        \/ CountSuccess(t)
        \/ CountFailure(t)
        \/ Finally(t)

SpecOcr == InitOcr /\ [][NextOcr]_vars

(***************************************************************************)
(* utils/structured_logger: the module-level _correlation_id (here         *)
(* correlation_id, 0 for None), the PipelineContext objects of the process *)
(* and the entries written so far.  A uuid is modelled by a number: the    *)
(* context c holds the id c, generated in its __init__, and an id          *)
(* generated by get_correlation_id is a number no context holds.  The      *)
(* contexts run in one thread (nested) or in several; an assignment to the *)
(* global and a read of it are single steps.                               *)
(***************************************************************************)
Contexts == 1..MaxContexts

\* generate_correlation_id() as called by get_correlation_id
FreshId == MaxContexts + 1

\* get_correlation_id(): the value of the global, generated when it is None
get_correlation_id == IF correlation_id = 0 THEN FreshId ELSE correlation_id

\* the entry StructuredLogger._log writes; c is the context it is written
\* through, 0 for a logger used directly
Entry(c, event) ==
    [context |-> c, event |-> event,
     correlation_id |-> get_correlation_id]

NewContext == [pc |-> "created", progress |-> 0]

InitLogger ==
    /\ correlation_id = 0
    /\ contexts = [c \in Contexts |-> NewContext]
    /\ log_entries = <<>>
    /\ FieldsIdle
    /\ ServicesIdle
    /\ CatIdle
    /\ NumbersIdle
    /\ RouterIdle
    /\ YearIdle
    /\ ExtractIdle
    /\ OcrIdle
    /\ AgainIdle

LoggerRest ==
    <<fpVars, saVars, catVars, numVars, rtVars, yrVars, exVars, ocrVars, agVars>>

\* __enter__: set_correlation_id(self.correlation_id)
EnterSets(c) ==
    /\ contexts[c].pc = "created"
    /\ correlation_id' = c
    /\ contexts' = [contexts EXCEPT ![c].pc = "entering"]
    /\ UNCHANGED <<log_entries, LoggerRest>>

\* __enter__: self.logger.info(... event='stage_start')
EnterLogs(c) ==
    /\ contexts[c].pc = "entering"
    /\ log_entries' = Append(log_entries, Entry(c, "stage_start"))
    /\ correlation_id' = get_correlation_id
    /\ contexts' = [contexts EXCEPT ![c].pc = "entered"]
    /\ UNCHANGED LoggerRest

\* log_progress inside the with block
LogProgress(c) ==
    /\ contexts[c].pc = "entered"
    /\ contexts[c].progress < MaxProgress
    /\ log_entries' = Append(log_entries, Entry(c, "progress"))
    /\ correlation_id' = get_correlation_id
    /\ contexts' = [contexts EXCEPT ![c].progress = @ + 1]
    /\ UNCHANGED LoggerRest

\* __exit__ without exception
ExitCompletes(c) ==
    /\ contexts[c].pc = "entered"
    /\ log_entries' = Append(log_entries, Entry(c, "stage_complete"))
    /\ correlation_id' = get_correlation_id
    /\ contexts' = [contexts EXCEPT ![c].pc = "exited"]
    /\ UNCHANGED LoggerRest

\* __exit__ with an exception
ExitFails(c) ==
    /\ contexts[c].pc = "entered"
    /\ log_entries' = Append(log_entries, Entry(c, "stage_error"))
    /\ correlation_id' = get_correlation_id
    /\ contexts' = [contexts EXCEPT ![c].pc = "exited"]
    /\ UNCHANGED LoggerRest

\* StructuredLogger(...).info(...) outside every context, before any context
\* is entered
DirectLog ==
    /\ log_entries = <<>>
    /\ \A c \in Contexts : contexts[c].pc = "created"
    /\ log_entries' = Append(log_entries, Entry(0, "direct"))
    /\ correlation_id' = get_correlation_id
    /\ UNCHANGED <<contexts, LoggerRest>>

NextLogger ==
    \/ DirectLog
    \/ \E c \in Contexts :
          \/ EnterSets(c)
          \/ EnterLogs(c)
          \/ LogProgress(c)
          \/ ExitCompletes(c)
          \/ ExitFails(c)

SpecLogger == InitLogger /\ [][NextLogger]_vars

(***************************************************************************)
(* apply_ml_categorization: the loop over the rows read from the source    *)
(* table.  A row is its work_order_id and its company_name_standardized;   *)
(* the description only goes into the prompt, and the reply of the oracle  *)
(* is not a function of it.  Row k of the frame has index idx = k - 1, and  *)
(* ui is the position of the batch update in categorized_data[-5:].        *)
(* The remote table the batch update writes to is not state of the         *)
(* program: an update query returns or raises.                             *)
(***************************************************************************)
\* "if (idx + 1) % 5 == 0" and "categorized_data[-5:]"
BatchSize == 5

Companies == { "Aeon Landscaping", "AE3 Excavating", "N/A" }

\* the frames of at most MaxRows rows, ordered by work_order_id
Frames ==
    UNION { { [k \in 1..n |-> [work_order_id |-> k,
                               company_name_standardized |-> c[k]]] :
              c \in [1..n -> Companies] } : n \in 0..MaxRows }

\* the replies of the oracle to the categorization prompts
RouterResponses ==
    { <<"Service:", " ", "Sod Removal", "\n",
        "Blocks/Lots/Units:", " ", "Lot", " ", "1">> }

\* the categorization of a company without categorizer
NoCategorizer(company) ==
    <<"Service:", " ", "Miscellaneous", " ", "(", "No categorizer for", " ",
      company, ")", "\n", "Blocks/Lots/Units:", " ", "Not specified">>

InitRouter ==
    /\ df \in Frames
    /\ idx = 0
    /\ categorized_data = <<>>
    /\ ui = 0
    /\ rpc = "route"
    /\ FieldsIdle
    /\ ServicesIdle
    /\ CatIdle
    /\ NumbersIdle
    /\ YearIdle
    /\ ExtractIdle
    /\ OcrIdle
    /\ AgainIdle
    /\ LoggerIdle

\* the row of the current iteration
Row == df[idx + 1]

\* a routing that sends every company to the AEON categorizer
RouteAllToAeon ==
    /\ rpc = "route"
    /\ idx < Len(df)
    /\ profile' = "AEON"
    /\ cpc' = "call"
    /\ rpc' = "categorizing"
    /\ UNCHANGED <<result, service_blocks, bi, parsed_services, ci,
                   consolidated_services, output, df, idx, categorized_data, ui,
                   fpVars, saVars, numVars, yrVars, exVars, ocrVars, agVars, logVars>>

\* company == "Aeon Landscaping" or company == "AE3 Excavating": the call of
\* categorize_aeon or categorize_ae3 starts
Route ==
    /\ rpc = "route"
    /\ idx < Len(df)
    /\ Row.company_name_standardized \in {"Aeon Landscaping", "AE3 Excavating"}
    /\ profile' = IF Row.company_name_standardized = "Aeon Landscaping"
                  THEN "AEON" ELSE "AE3"
    /\ cpc' = "call"
    /\ rpc' = "categorizing"
    /\ UNCHANGED <<result, service_blocks, bi, parsed_services, ci,
                   consolidated_services, output, df, idx, categorized_data, ui,
                   fpVars, saVars, numVars, yrVars, exVars, ocrVars, agVars, logVars>>

\* the rest of an iteration after categorized_data.append: time.sleep(1),
\* then either the batch update starts or the loop goes to the next row
AfterAppend ==
    IF (idx + 1) % BatchSize = 0
    THEN rpc' = "batch" /\ ui' = 1 /\ idx' = idx
    ELSE rpc' = "route" /\ ui' = ui /\ idx' = idx + 1

\* an append that keeps only the newest entry
AppendedKeepNewest(entries, entry) == <<entry>>

\* categorized_data.append({...})
Appended(entries, entry) == Append(entries, entry)

\* the categorizer has returned: its string is appended
RecordCategorization ==
    /\ rpc = "categorizing"
    /\ cpc = "returned"
    /\ categorized_data' =
          Appended(categorized_data, [work_order_id |-> Row.work_order_id,
                                      ml_categorization |-> output])
    /\ AfterAppend
    /\ profile' = "none"
    /\ result' = <<>>
    /\ service_blocks' = <<>>
    /\ bi' = 0
    /\ parsed_services' = <<>>
    /\ ci' = 0
    /\ consolidated_services' = <<>>
    /\ output' = <<>>
    /\ cpc' = "idle"
    /\ UNCHANGED <<df, fpVars, saVars, numVars, yrVars, exVars, ocrVars, agVars, logVars>>

\* the else branch: the default string is appended
RecordDefault ==
    /\ rpc = "route"
    /\ idx < Len(df)
    /\ Row.company_name_standardized \notin {"Aeon Landscaping", "AE3 Excavating"}
    /\ categorized_data' =
          Appended(categorized_data,
                   [work_order_id |-> Row.work_order_id,
                    ml_categorization |-> NoCategorizer(Row.company_name_standardized)])
    /\ AfterAppend
    /\ UNCHANGED <<df, fpVars, saVars, catVars, numVars, yrVars, exVars, ocrVars, agVars, logVars>>

\* one iteration of "for data in categorized_data[-5:]": the update query
\* returns, or raises an error that is logged and the loop continues
UpdateRow ==
    /\ rpc = "batch"
    /\ ui <= BatchSize
    /\ ui' = ui + 1
    /\ UNCHANGED <<df, idx, categorized_data, rpc, fpVars, saVars, catVars, numVars, yrVars, exVars, ocrVars, agVars, logVars>>

\* the update raises a "streaming buffer" error: break
UpdateBreaks ==
    /\ rpc = "batch"
    /\ ui <= BatchSize
    /\ idx' = idx + 1
    /\ rpc' = "route"
    /\ UNCHANGED <<df, categorized_data, ui, fpVars, saVars, catVars, numVars, yrVars, exVars, ocrVars, agVars, logVars>>

\* the batch loop is exhausted
BatchDone ==
    /\ rpc = "batch"
    /\ ui > BatchSize
    /\ idx' = idx + 1
    /\ rpc' = "route"
    /\ UNCHANGED <<df, categorized_data, ui, fpVars, saVars, catVars, numVars, yrVars, exVars, ocrVars, agVars, logVars>>

\* df.iterrows() is exhausted
RowsDone ==
    /\ rpc = "route"
    /\ idx >= Len(df)
    /\ rpc' = "done"
    /\ UNCHANGED <<df, idx, categorized_data, ui, fpVars, saVars, catVars, numVars, yrVars, exVars, ocrVars, agVars, logVars>>

RoutedCategorize ==
    /\ rpc = "categorizing"
    /\ \/ OracleReplies(RouterResponses)
       \/ Categorize

NextRouter ==
    \/ Route
    \/ RoutedCategorize
    \/ RecordCategorization
    \/ RecordDefault
    \/ UpdateRow
    \/ UpdateBreaks
    \/ BatchDone
    \/ RowsDone

SpecRouter == InitRouter /\ [][NextRouter]_vars

(***************************************************************************)
(* Claims about the field parser                                           *)
(***************************************************************************)
\* position of the first colon of t, 0 when t has none
FirstColon(t) ==
    IF \E k \in 1..Len(t) : t[k] = ":"
    THEN CHOOSE k \in 1..Len(t) : t[k] = ":" /\ \A j \in 1..(k - 1) : t[j] # ":"
    ELSE 0

\* number of leading decimal digits of t
LeadingDigits(t) ==
    IF t # <<>> /\ t[1] \in Digits
    THEN CHOOSE n \in 1..Len(t) :
            /\ \A j \in 1..n : t[j] \in Digits
            /\ (n < Len(t) => t[n + 1] \notin Digits)
    ELSE 0

\* the line reads "<i>. <label>: <value>" with i >= 1 and no colon in label
IsNumberedLine(raw) ==
    LET t == Strip(raw)
        n == LeadingDigits(t)
    IN  /\ n >= 1
        /\ Len(t) > n
        /\ t[n + 1] = "."
        /\ FirstColon(t) > n + 1
        /\ DecVal(SubSeq(t, 1, n), 0) >= 1

NumberedLineIndex(raw) ==
    LET t == Strip(raw) IN DecVal(SubSeq(t, 1, LeadingDigits(t)), 0)

AfterFirstColon(raw) ==
    LET t == Strip(raw) IN Strip(SubSeq(t, FirstColon(t) + 1, Len(t)))

\* the text before the first colon, cut at its first period, is a decimal
\* integer with an optional sign
IndexTokenIsInteger(raw) ==
    LET t == Strip(raw)
        before == SubSeq(t, 1, FirstColon(t) - 1)
        cut == IF \E k \in 1..Len(before) : before[k] = "."
               THEN SubSeq(before, 1,
                      (CHOOSE k \in 1..Len(before) :
                          before[k] = "." /\ \A j \in 1..(k - 1) : before[j] # ".") - 1)
               ELSE before
        tok == Strip(cut)
        body == IF tok # <<>> /\ tok[1] \in {"+", "-"} THEN Tail(tok) ELSE tok
    IN  body # <<>> /\ \A k \in 1..Len(body) : body[k] \in Digits

\* the line processed last, when one has been processed
LastLine == lines[li - 1]
LineProcessed == fpc \in {"parsing", "done"} /\ li > 1

\* C1: once a line "<i>. <label>: <value>" (i >= 1, no colon in the label) has
\* been processed, the FieldMap maps i to everything after the line's first
\* colon, trimmed, further colons included.
C1_NumberedLineStored ==
    (LineProcessed /\ IsNumberedLine(LastLine)) =>
        /\ NumberedLineIndex(LastLine) \in DOMAIN extracted_fields
        /\ extracted_fields[NumberedLineIndex(LastLine)] = AfterFirstColon(LastLine)

\* a numbered line whose value holds a colon and is surrounded by blanks has
\* been stored in full
C1_Witness ==
    /\ LineProcessed
    /\ IsNumberedLine(LastLine)
    /\ LastLine = <<"0", "2", ".", " ", "W", ".", " ", ":", " ", " ", "a", ":", "b", " ">>
    /\ extracted_fields[2] = <<"a", ":", "b">>

\* C2: processing a line that has no colon, or whose index token does not
\* parse as an integer, leaves the FieldMap exactly as it was.
C2_NonFieldLineIgnored ==
    [][ (fpc = "parsing" /\ li <= Len(lines)
         /\ (FirstColon(Strip(lines[li])) = 0 \/ ~IndexTokenIsInteger(lines[li])))
        => extracted_fields' = extracted_fields ]_vars

\* a line with a colon and an unparseable index has been skipped while an
\* earlier entry stood
C2_Witness ==
    /\ LineProcessed
    /\ li = 3
    /\ FirstColon(Strip(LastLine)) > 0
    /\ ~IndexTokenIsInteger(LastLine)
    /\ DOMAIN extracted_fields = {1}
    /\ extracted_fields[1] = <<"a">>

(***************************************************************************)
(* Claims about the service assembler                                      *)
(***************************************************************************)
\* the field is present, not blank and not the placeholder
Filled(d, k) == k \in DOMAIN d /\ d[k] # <<>> /\ d[k] # NA

\* the (service type, date) of every line position whose service-type field
\* and own date field are both filled, in position order
RECURSIVE FilledLines(_, _)
FilledLines(d, k) ==
    IF k > 4 THEN <<>>
    ELSE LET b == SlotBases[k] IN
         (IF Filled(d, b) /\ Filled(d, b + 1) THEN << <<d[b], d[b + 1]>> >> ELSE <<>>)
         \o (IF Filled(d, b) /\ Filled(d, b + 4) THEN << <<d[b], d[b + 4]>> >> ELSE <<>>)
         \o FilledLines(d, k + 1)

EmittedLines == [k \in 1..Len(services) |-> <<services[k].service_type, services[k].date>>]

\* C3: a ServiceLineItem is emitted for a line position if and only if the
\* slot's service-type field and that line's own date field are both present,
\* non-blank and different from "N/A".
C3_EmittedIffTypeAndDateFilled ==
    spc # "start" => EmittedLines = FilledLines(fields, 1)

(***************************************************************************)
(* Claims about taxonomy validation                                        *)
(***************************************************************************)
Taxonomy(p) == IF p = "AEON" THEN AEON_CATEGORIES ELSE AE3_CATEGORIES

EscapePrefixes(p) ==
    IF p = "AEON" THEN {"Settlement Repairs", "Miscellaneous"} ELSE {"Miscellaneous"}

HasEscapePrefix(p, label) == label # <<>> /\ label[1] \in EscapePrefixes(p)

SubstitutionSources ==
    { <<"Haul From Lots">>, <<"Haul To Lots">>, <<"Loading Fill To Stockpile">>,
      <<"Loading Fill From Stockpile">> }

\* a block has just been parsed, and it reads "Service: <label>" on its
\* first line
BlockParsed == cpc = "parse" /\ bi > 1
ParsedBlock == service_blocks[bi - 1]
StartsWithServiceLine(block) ==
    Len(block) >= 3 /\ block[1] = "Service:" /\ block[2] = " " /\ ~IsSpace(block[3])

\* the label written after "Service: " on the first line of the block
WrittenLabel(block) ==
    LET ends == { k \in 1..Len(block) : block[k] = "\n" }
        stop == IF ends = {} THEN Len(block) + 1
                ELSE CHOOSE k \in ends : \A j \in ends : k <= j
    IN  SubSeq(block, 3, stop - 1)

LastPair == parsed_services[Len(parsed_services)]

Seen ==
    IF cpc \in {"consolidate", "returned"} THEN SubSeq(parsed_services, 1, ci - 1)
    ELSE <<>>

SeenLabels == { Seen[k].service : k \in 1..Len(Seen) }

IsFamily(label) == label # <<>> /\ label[1] = "Settlement Repairs"

\* the label is consolidated by the default rule
DefaultRule(label) == ~(profile = "AEON" /\ IsFamily(label))

\* the locations seen for a label, in order
LocationsOf(label) ==
    LET Has(pr) == pr.service = label
        prs == SelectSeq(Seen, Has)
    IN  [k \in 1..Len(prs) |-> prs[k].blocks]

EntriesOf(label) ==
    { i \in 1..Len(consolidated_services) : consolidated_services[i].key = label }

\* x occurs in s as a run of consecutive symbols
Within(x, s) ==
    \E k \in 0..(Len(s) - Len(x)) : \A j \in 1..Len(x) : s[k + j] = x[j]

HoldsOnly(label, v) ==
    /\ Cardinality(EntriesOf(label)) = 1
    /\ \A i \in EntriesOf(label) : consolidated_services[i].val = v

\* C5: a label seen twice under the default rule, with distinct real
\* locations neither inside the other, has one entry "<first>, <second>";
\* seen twice with the same real location, one entry holding that location.
C5_TwoLocationsJoined ==
    \A label \in SeenLabels :
        LET locs == LocationsOf(label) IN
        (DefaultRule(label) /\ Len(locs) = 2
            /\ locs[1] # NotSpecified /\ locs[2] # NotSpecified) =>
            /\ (locs[1] # locs[2] /\ ~Within(locs[1], locs[2]) /\ ~Within(locs[2], locs[1]))
                  => HoldsOnly(label, locs[1] \o <<",", " ">> \o locs[2])
            /\ locs[1] = locs[2] => HoldsOnly(label, locs[1])

\* "Straw Installation" seen with Lot 1 then Lot 2
C5_Witness ==
    /\ cpc = "returned"
    /\ LocationsOf(<<"Straw Installation">>) = << <<"Lot", " ", "1">>, <<"Lot", " ", "2">> >>
    /\ HoldsOnly(<<"Straw Installation">>, <<"Lot", " ", "1", ",", " ", "Lot", " ", "2">>)

FamilyPairs ==
    LET InFamily(pr) == IsFamily(pr.service) IN SelectSeq(Seen, InFamily)

FamilyEntries ==
    LET InFamily(e) == IsFamily(e.key) IN SelectSeq(consolidated_services, InFamily)

\* C6: in the AEON profile the n pairs seen with a label starting with
\* "Settlement Repairs" have n entries of their own, in order, each holding
\* the location of its pair; all keys of the map are distinct; three
\* occurrences of the bare label are keyed by the label and by the label
\* followed by 1 and by 2.
C6_FamilyNeverConsolidated ==
    profile = "AEON" =>
        /\ Len(FamilyEntries) = Len(FamilyPairs)
        /\ \A k \in 1..Len(FamilyPairs) : FamilyEntries[k].val = FamilyPairs[k].blocks
        /\ \A i, j \in 1..Len(consolidated_services) :
              i # j => consolidated_services[i].key # consolidated_services[j].key
        /\ (/\ Len(FamilyPairs) = 3
            /\ \A k \in 1..3 : FamilyPairs[k].service = <<"Settlement Repairs">>)
              => [k \in 1..3 |-> FamilyEntries[k].key] =
                    << <<"Settlement Repairs">>, <<"Settlement Repairs", "1">>,
                       <<"Settlement Repairs", "2">> >>

\* three occurrences of the bare label with their own locations
C6_Witness ==
    /\ profile = "AEON"
    /\ cpc = "returned"
    /\ consolidated_services =
          << [key |-> <<"Settlement Repairs">>, val |-> <<"Lot", " ", "1">>],
             [key |-> <<"Settlement Repairs", "1">>, val |-> <<"Lot", " ", "2">>],
             [key |-> <<"Settlement Repairs", "2">>, val |-> <<"Lot", " ", "1">>] >>

\* the value the map holds for a label, <<>> when it has none
Held(d, label) ==
    IF \E i \in 1..Len(d) : d[i].key = label
    THEN d[CHOOSE i \in 1..Len(d) : d[i].key = label].val
    ELSE <<>>

Keyed(d, label) == \E i \in 1..Len(d) : d[i].key = label

\* the step consolidates a pair under the default rule
DefaultStep ==
    /\ cpc = "consolidate"
    /\ ci <= Len(parsed_services)
    /\ DefaultRule(parsed_services[ci].service)

\* C7: under the default rule a "Not specified" pair never changes an entry
\* that holds a real value, a real location replaces a standing
\* "Not specified", a label's value is "Not specified" only if every pair
\* seen for it was, and "Not specified" is never part of a longer value.
C7_SentinelHandling ==
    /\ [][ DefaultStep =>
            LET label == parsed_services[ci].service
                loc == parsed_services[ci].blocks
                old == Held(consolidated_services, label)
            IN  /\ (loc = NotSpecified /\ Keyed(consolidated_services, label)
                        /\ old # NotSpecified)
                      => consolidated_services' = consolidated_services
                /\ (loc # NotSpecified /\ Keyed(consolidated_services, label)
                        /\ old = NotSpecified)
                      => Held(consolidated_services', label) = loc ]_vars
    /\ [](\A i \in 1..Len(consolidated_services) :
            LET e == consolidated_services[i] IN
            DefaultRule(e.key) =>
                /\ e.val = NotSpecified
                      => \A k \in 1..Len(LocationsOf(e.key)) :
                            LocationsOf(e.key)[k] = NotSpecified
                /\ (\E k \in 1..Len(e.val) : e.val[k] = "Not specified")
                      => e.val = NotSpecified)

\* a label seen unlocated, then located, then unlocated again holds the
\* real location
C7_Witness ==
    /\ cpc = "returned"
    /\ LocationsOf(<<"Straw Installation">>) =
          << NotSpecified, <<"Lot", " ", "1">>, NotSpecified >>
    /\ HoldsOnly(<<"Straw Installation">>, <<"Lot", " ", "1">>)

(***************************************************************************)
(* Claims about the categorization response parser                         *)
(***************************************************************************)
\* the places of text where two newlines are directly followed by "Service:"
Boundaries(text) ==
    { k \in 1..(Len(text) - 2) :
        text[k] = "\n" /\ text[k + 1] = "\n" /\ text[k + 2] = "Service:" }

HasSplit == cpc \in {"parse", "consolidate"} \/ (cpc = "returned" /\ bi > 0)

\* C8 as stated: the number of blocks is one plus the number of blank-line
\* boundaries directly followed by "Service:" in the response.
C8_BlocksOfRawResponse ==
    HasSplit => Len(service_blocks) = 1 + Cardinality(Boundaries(result))

\* C8 amended: the response, trimmed of surrounding whitespace, is cut at
\* exactly the blank-line boundaries directly followed by "Service:": there
\* is one block more than boundaries, the blocks joined by blank lines give
\* the trimmed response back, every block after the first starts with
\* "Service:", and no block holds a boundary (text after any other blank
\* line stays in its block).
C8_SplitAtServiceBoundaries ==
    HasSplit =>
        LET text == Strip(result) IN
        /\ Len(service_blocks) = 1 + Cardinality(Boundaries(text))
        /\ Join(service_blocks, <<"\n", "\n">>) = text
        /\ \A k \in 2..Len(service_blocks) :
              service_blocks[k] # <<>> /\ service_blocks[k][1] = "Service:"
        /\ \A k \in 1..Len(service_blocks) : Boundaries(service_blocks[k]) = {}

\* free text after a blank line has stayed in the block it follows
C8_Witness ==
    /\ HasSplit
    /\ result = <<"Service:", " ", "Straw Installation", "\n", "\n", "Lot", " ", "2">>
    /\ service_blocks = <<result>>

\* the text between the first marker of the block and the end of the
\* marker's own line, trimmed
SameLineText(block, marker) ==
    LET at == CHOOSE k \in 1..Len(block) :
                    block[k] = marker /\ \A j \in 1..(k - 1) : block[j] # marker
        ends == { k \in (at + 1)..Len(block) : block[k] = "\n" }
        stop == IF ends = {} THEN Len(block) + 1
                ELSE CHOOSE k \in ends : \A j \in ends : k <= j
    IN  Strip(SubSeq(block, at + 1, stop - 1))

HasMarker(block, marker) == \E k \in 1..Len(block) : block[k] = marker

\* C9: the label of a parsed block is the text after "Service:" on that
\* same line and its location the text after "Blocks/Lots/Units:" on that
\* same line, both trimmed; neither holds text of another line.
C9_ValuesFromOwnLine ==
    (BlockParsed /\ HasMarker(ParsedBlock, "Service:")) =>
        /\ LastPair.service = Validated(profile, SameLineText(ParsedBlock, "Service:"))
        /\ HasMarker(ParsedBlock, "Blocks/Lots/Units:")
              => LastPair.blocks = SameLineText(ParsedBlock, "Blocks/Lots/Units:")

\* the blocks parsed so far
ParsedCount ==
    IF cpc = "parse" THEN bi - 1
    ELSE IF cpc \in {"consolidate", "returned"} THEN Len(service_blocks)
    ELSE 0

\* the positions of the parsed blocks that hold a service line, ascending
ServiceBlockPositions ==
    LET S == { k \in 1..ParsedCount : HasMarker(service_blocks[k], "Service:") } IN
    CHOOSE f \in [1..Cardinality(S) -> S] :
        \A i, j \in 1..Cardinality(S) : i < j => f[i] < f[j]

\* C10: the pairs are those of the blocks that hold a service line, one per
\* block and in block order; a block without a service line gives none; a
\* block without a location line gives the location "Not specified".
C10_PairsFollowBlocks ==
    LET at == ServiceBlockPositions IN
    /\ Len(parsed_services) = Len(at)
    /\ \A j \in 1..Len(at) :
          LET block == service_blocks[at[j]] IN
          /\ parsed_services[j].service =
                Validated(profile, Strip(Search(block, "Service:").group))
          /\ ~HasMarker(block, "Blocks/Lots/Units:")
                => parsed_services[j].blocks = NotSpecified

\* a block without a service line gave no pair, the next one, without a
\* location line, gave ("Straw Installation", "Not specified")
C10_Witness ==
    /\ cpc = "consolidate"
    /\ service_blocks = << <<"Lot", " ", "2">>, <<"Service:", " ", "Straw Installation">> >>
    /\ parsed_services =
          << [service |-> <<"Straw Installation">>, blocks |-> NotSpecified] >>

(***************************************************************************)
(* Claims about the numeric coercions                                      *)
(***************************************************************************)
AllDigits(t) == t # <<>> /\ \A k \in 1..Len(t) : t[k] \in Digits

\* the natural number a digit string writes
RECURSIVE Decimal(_)
Decimal(t) ==
    IF t = <<>> THEN 0
    ELSE 10 * Decimal(SubSeq(t, 1, Len(t) - 1)) + DigitVal(t[Len(t)])

RECURSIVE Pow10(_)
Pow10(e) == IF e = 0 THEN 1 ELSE 10 * Pow10(e - 1)

\* the coerced value r is the number n
IsNumber(r, n) == r.kind = "num" /\ r.exp >= 0 /\ r.mant * Pow10(r.exp) = n

\* the forms "n", "n each", "n /each", "n/each", "n man", "n /man", "n/man"
HoursForms ==
    { <<>>, <<" ", "e", "a", "c", "h">>, <<" ", "/", "e", "a", "c", "h">>,
      <<"/", "e", "a", "c", "h">>, <<" ", "m", "a", "n">>,
      <<" ", "/", "m", "a", "n">>, <<"/", "m", "a", "n">> }

\* the digit strings n such that the value is n followed by one of the forms
WrittenNumbers ==
    { SubSeq(raw_value, 1, k) : k \in { j \in 1..Len(raw_value) :
          /\ AllDigits(SubSeq(raw_value, 1, j))
          /\ SubSeq(raw_value, j + 1, Len(raw_value)) \in HoursForms } }

\* C11: an hours value written as a decimal n, alone or followed by one of
\* the six unit forms, is cleaned to the string "n" and then coerced to the
\* number n.
C11_HoursCoercedToNumber ==
    \A n \in WrittenNumbers :
        /\ (path = "hours" /\ npc \in {"cleaned", "coerced"}) => hours_text = n
        /\ (path = "hours" /\ npc = "coerced") => IsNumber(number, Decimal(n))

\* "10 /each" has been cleaned to "10" and coerced to 10
C11_Witness ==
    /\ path = "hours"
    /\ npc = "coerced"
    /\ raw_value = <<"1", "0", " ", "/", "e", "a", "c", "h">>
    /\ hours_text = <<"1", "0">>
    /\ IsNumber(number, 10)

\* characters that no float literal holds
NonNumericChars == {"X", "/", "b", "c", "h", "l", "m", "u"}

\* the text is empty or holds a character that no number holds
NotANumber(t) == t = <<>> \/ \E k \in 1..Len(t) : t[k] \in NonNumericChars

\* the text handed to the coercion on the path taken
CoercedText == IF path = "hours" THEN hours_text ELSE raw_value

\* C12: on every path that builds a service line item, a quantity or hours
\* value that is not a number is coerced to null, never to a number.
C12_NonNumberGivesNull ==
    (npc = "coerced" /\ NotANumber(CoercedText)) => number = None

(***************************************************************************)
(* Claims about the rendering of the consolidated map                      *)
(***************************************************************************)
\* the two lines of one entry
TwoLines(e) ==
    <<"Service:", " ">> \o e.key \o <<"\n">> \o <<"Blocks/Lots/Units:", " ">> \o e.val

\* the blocks of the first n entries, one blank line between two blocks
RECURSIVE Rendering(_)
Rendering(n) ==
    IF n = 1 THEN TwoLines(consolidated_services[1])
    ELSE Rendering(n - 1) \o <<"\n", "\n">> \o TwoLines(consolidated_services[n])

\* the place of the first pair with the label
FirstSeen(label) ==
    CHOOSE k \in 1..Len(parsed_services) :
        /\ parsed_services[k].service = label
        /\ \A j \in 1..(k - 1) : parsed_services[j].service # label

Rendered == cpc = "returned" /\ consolidated_services # <<>>

\* C13: a non-empty map is rendered as its entries' two-line blocks joined
\* by one blank line, in the order of the map; keys of the default rule
\* stand in the order of their first occurrence among the pairs; the pairs
\* (L, Lot 1), (L, Lot 2) render as the single block of L and "Lot 1, Lot 2".
C13_RenderedInInsertionOrder ==
    Rendered =>
        /\ output = Rendering(Len(consolidated_services))
        /\ \A i, j \in 1..Len(consolidated_services) :
              LET a == consolidated_services[i].key
                  b == consolidated_services[j].key
              IN  (i < j /\ DefaultRule(a) /\ DefaultRule(b))
                      => FirstSeen(a) < FirstSeen(b)
        /\ parsed_services =
              << [service |-> <<"Straw Installation">>, blocks |-> <<"Lot", " ", "1">>],
                 [service |-> <<"Straw Installation">>, blocks |-> <<"Lot", " ", "2">>] >>
              => output = <<"Service:", " ", "Straw Installation", "\n",
                            "Blocks/Lots/Units:", " ",
                            "Lot", " ", "1", ",", " ", "Lot", " ", "2">>

\* two labels of the default rule rendered in the order of first occurrence,
\* the first of them seen again after the second
C13_Witness ==
    /\ Rendered
    /\ Len(parsed_services) = 3
    /\ parsed_services[1].service = <<"Straw Installation">>
    /\ parsed_services[2].service[1] = "Miscellaneous"
    /\ parsed_services[3].service = <<"Straw Installation">>
    /\ Len(consolidated_services) = 2
    /\ consolidated_services[1].key = <<"Straw Installation">>
    /\ output = Rendering(2)

\* what an empty map is rendered as
EmptySentinel == <<"Error in categorization">>

\* the call of the model failed and the except branch returned
Failed == cpc = "returned" /\ bi = 0

\* C14: an empty map is rendered as one fixed non-empty string, which no
\* non-empty map is rendered as and no failed categorization returns.
C14_EmptyMapSentinel ==
    /\ EmptySentinel # <<>>
    /\ (cpc = "returned" /\ ~Failed /\ consolidated_services = <<>>)
          => output = EmptySentinel
    /\ Rendered => output # EmptySentinel
    /\ Failed => output # EmptySentinel

\* a response without any service line has been rendered
C14_Witness ==
    /\ cpc = "returned"
    /\ result = <<"Lot", " ", "2">>
    /\ bi > 0
    /\ parsed_services = <<>>
    /\ output = <<"Error in categorization">>

(***************************************************************************)
(* Claims about the parsing core as a whole                                *)
(***************************************************************************)
\* C15: whatever the text, the numbered-field loop reaches its end, and the
\* categorizer, once it has the response, returns the rendering of its map
\* (not the value of the except branch).
C15_CoreAlwaysReturns ==
    /\ (fpc = "start") ~> (fpc = "done")
    /\ (cpc = "split") ~> (cpc = "returned" /\ ~Failed)

\* a response whose only line has a non-numeric label has been parsed to the
\* empty map
C15_Witness ==
    /\ fpc = "done"
    /\ response_text = <<"x", ":">>
    /\ extracted_fields = EmptyDict

(***************************************************************************)
(* Further claims about the field parser                                   *)
(***************************************************************************)
\* the index token of a line with a colon: the text before the first colon,
\* cut at its first period, trimmed
IndexTokenOf(raw) ==
    LET t == Strip(raw)
        before == SubSeq(t, 1, FirstColon(t) - 1)
        dots == { k \in 1..Len(before) : before[k] = "." }
        cut == IF dots = {} THEN before
               ELSE SubSeq(before, 1, (CHOOSE k \in dots : \A j \in dots : k <= j) - 1)
    IN  Strip(cut)

\* the line has a colon and its index token writes an integer
ParsesToIndex(raw) == FirstColon(Strip(raw)) > 0 /\ IndexTokenIsInteger(raw)

\* the integer the index token writes
IndexOf(raw) ==
    LET tok == IndexTokenOf(raw) IN
    IF tok[1] = "-" THEN 0 - Decimal(Tail(tok))
    ELSE IF tok[1] = "+" THEN Decimal(Tail(tok))
    ELSE Decimal(tok)

\* the lines processed so far
Processed == IF fpc \in {"parsing", "done"} THEN 1..(li - 1) ELSE {}

\* C16: the FieldMap holds, for every index some processed line parses to,
\* the value of the last such line, and holds no other index.
C16_LastOccurrenceWins ==
    /\ DOMAIN extracted_fields =
          { IndexOf(lines[k]) : k \in { j \in Processed : ParsesToIndex(lines[j]) } }
    /\ \A k \in Processed :
          (/\ ParsesToIndex(lines[k])
           /\ \A j \in Processed :
                 (j > k /\ ParsesToIndex(lines[j])) => IndexOf(lines[j]) # IndexOf(lines[k]))
          => extracted_fields[IndexOf(lines[k])] = AfterFirstColon(lines[k])

\* two lines of the response parse to index 1 with different values; the
\* map holds the second value
C16_Witness ==
    /\ fpc = "done"
    /\ Len(lines) = 2
    /\ ParsesToIndex(lines[1]) /\ IndexOf(lines[1]) = 1
    /\ ParsesToIndex(lines[2]) /\ IndexOf(lines[2]) = 1
    /\ AfterFirstColon(lines[1]) = <<"a">>
    /\ AfterFirstColon(lines[2]) = <<"a", ":", "b">>
    /\ extracted_fields = (1 :> <<"a", ":", "b">>)

\* C17: every key of the FieldMap is a positive integer.
C17_KeysPositive ==
    \A k \in DOMAIN extracted_fields : k >= 1

(***************************************************************************)
(* Further claims about the service assembler                              *)
(***************************************************************************)
\* the field holding the service type of line position p (1..8: slot 1
\* primary, slot 1 continuation, slot 2 primary, ...), and the one holding
\* its date
TypeField(p) == <<8, 15, 22, 29>>[(p + 1) \div 2]
DateField(p) == TypeField(p) + (IF p % 2 = 1 THEN 1 ELSE 4)

\* the text of a field, "" when the map has no such field
TextOf(k) == IF k \in DOMAIN fields THEN fields[k] ELSE <<>>

\* the items from position i on are those of line positions in ascending
\* order, none below p
RECURSIVE InLineOrder(_, _)
InLineOrder(i, p) ==
    IF i > Len(services) THEN TRUE
    ELSE IF p > 8 THEN FALSE
    ELSE IF /\ services[i].service_type = TextOf(TypeField(p))
            /\ services[i].date = TextOf(DateField(p))
         THEN InLineOrder(i + 1, p + 1)
         ELSE InLineOrder(i, p + 1)

\* C18: the items are those of line positions taken in the order slot 1
\* primary, slot 1 continuation, ..., slot 4 continuation, each with the
\* service type of its slot and the date of its line; there are at most 8.
C18_ItemsInLineOrder ==
    spc # "start" => (Len(services) <= 8 /\ InLineOrder(1, 1))

\* all eight lines have been emitted
C18_Witness ==
    /\ spc = "returned services"
    /\ Len(services) = 8
    /\ services[1].service_type = <<"S", "1">> /\ services[1].date = <<"1", "6">>
    /\ services[2].service_type = <<"S", "1">> /\ services[2].date = <<"1", "7">>
    /\ services[7].service_type = <<"S", "4">> /\ services[7].date = <<"1", "6">>
    /\ services[8].service_type = <<"S", "4">> /\ services[8].date = <<"1", "7">>

(***************************************************************************)
(* Further claims about the numeric coercions                              *)
(***************************************************************************)
\* the unit suffixes, with and without one separating space
KnownSuffixes ==
    { <<"e", "a", "c", "h">>, <<" ", "e", "a", "c", "h">>,
      <<"/", "e", "a", "c", "h">>, <<" ", "/", "e", "a", "c", "h">>,
      <<"m", "a", "n">>, <<" ", "m", "a", "n">>,
      <<"/", "m", "a", "n">>, <<" ", "/", "m", "a", "n">> }

\* t with one known suffix taken off its end, for every suffix it ends with
WithoutTrailingSuffix(t) ==
    { SubSeq(t, 1, Len(t) - Len(u)) :
        u \in { v \in KnownSuffixes :
                  Len(v) <= Len(t) /\ SubSeq(t, Len(t) - Len(v) + 1, Len(t)) = v } }

\* C19: the cleaned hours value is the value itself or the value with one
\* known unit suffix removed from its end.
C19_OnlyTrailingSuffixRemoved ==
    (path = "hours" /\ npc \in {"cleaned", "coerced"}) =>
        hours_text \in {raw_value} \cup WithoutTrailingSuffix(raw_value)

(***************************************************************************)
(* Further claims about label validation                                   *)
(***************************************************************************)
\* the target of the substitution rule whose source is the label
RuleTarget(label) ==
    CASE label = <<"Haul From Lots">> -> <<"Haul To Stockpile">>
      [] label = <<"Haul To Lots">> -> <<"Haul From Stockpile">>
      [] label = <<"Loading Fill To Stockpile">> -> <<"Loading Fill From Lots">>
      [] label = <<"Loading Fill From Stockpile">> -> <<"Loading Fill To Lots">>

CatchAll(label) == <<"Miscellaneous", " ", "(">> \o label \o <<")">>

\* the outcome of the membership test on a label
Tested(p, label) ==
    IF label \in Taxonomy(p) \/ HasEscapePrefix(p, label) THEN label
    ELSE CatchAll(label)

\* C20: under AE3 a label equal to the source of a substitution rule is
\* stored as the rule's target, never as the catch-all, and is never a key
\* of the consolidated map; any other label is stored as the membership test
\* leaves it; under AEON every label is stored as the membership test leaves
\* it, the sources of the rules included.
C20_SubstitutionBeforeValidation ==
    /\ (BlockParsed /\ StartsWithServiceLine(ParsedBlock)) =>
          LET raw == WrittenLabel(ParsedBlock) IN
          /\ (profile = "AE3" /\ raw \in SubstitutionSources)
                => (LastPair.service = RuleTarget(raw) /\ LastPair.service # CatchAll(raw))
          /\ (profile = "AE3" /\ raw \notin SubstitutionSources)
                => LastPair.service = Tested("AE3", raw)
          /\ profile = "AEON" => LastPair.service = Tested("AEON", raw)
    /\ profile = "AE3" =>
          \A i \in 1..Len(consolidated_services) :
              consolidated_services[i].key \notin SubstitutionSources

\* under AE3 "Haul From Lots" has been stored as "Haul To Stockpile"
C20_Witness ==
    /\ profile = "AE3"
    /\ BlockParsed
    /\ StartsWithServiceLine(ParsedBlock)
    /\ WrittenLabel(ParsedBlock) = <<"Haul From Lots">>
    /\ LastPair.service = <<"Haul To Stockpile">>

(***************************************************************************)
(* Further claims about the never-consolidated family                      *)
(***************************************************************************)
\* the label of the k-th family pair was not seen among the earlier ones
FirstOccurrence(k) ==
    \A j \in 1..(k - 1) : FamilyPairs[j].service # FamilyPairs[k].service

\* key is the label followed by a numeric counter
LabelWithCounter(key, label) ==
    /\ Len(key) > Len(label)
    /\ SubSeq(key, 1, Len(label)) = label
    /\ AllDigits(SubSeq(key, Len(label) + 1, Len(key)))

\* C21: in the AEON profile, for every label L starting with "Settlement
\* Repairs", the first occurrence of L is stored under the key L and each
\* later occurrence of L under L followed by a numeric counter; all keys of
\* the map are distinct.
C21_FamilyKeyedByLabel ==
    profile = "AEON" =>
        /\ \A k \in 1..Len(FamilyPairs) :
              k <= Len(FamilyEntries) =>
                  IF FirstOccurrence(k)
                  THEN FamilyEntries[k].key = FamilyPairs[k].service
                  ELSE LabelWithCounter(FamilyEntries[k].key, FamilyPairs[k].service)
        /\ \A i, j \in 1..Len(consolidated_services) :
              i # j => consolidated_services[i].key # consolidated_services[j].key

(***************************************************************************)
(* Claims about apply_ml_categorization                                    *)
(***************************************************************************)
\* the number of rows whose iteration has appended its entry
RowsRecorded == IF rpc = "batch" THEN idx + 1 ELSE idx

\* what a categorizer returns when its call of the oracle raises
CategorizerErrors ==
    { <<"Error in categorization", ":", " ">> \o msg : msg \in ExceptionTexts }

\* the strings the categorizer of a company can return on RouterResponses
Categorizations(company) ==
    IF company = "Aeon Landscaping"
    THEN { <<"Service:", " ", "Sod Removal", "\n",
             "Blocks/Lots/Units:", " ", "Lot", " ", "1">> } \cup CategorizerErrors
    ELSE IF company = "AE3 Excavating"
    THEN { <<"Service:", " ", "Miscellaneous", " ", "(", "Sod Removal", ")",
             "\n", "Blocks/Lots/Units:", " ", "Lot", " ", "1">> } \cup CategorizerErrors
    ELSE { <<"Service:", " ", "Miscellaneous", " ", "(", "No categorizer for", " ",
             company, ")", "\n", "Blocks/Lots/Units:", " ", "Not specified">> }

RowsRecordedInOrder ==
    /\ rpc # "idle" => Len(categorized_data) = RowsRecorded
    /\ rpc = "done" => Len(categorized_data) = Len(df)
    /\ \A k \in 1..Len(categorized_data) :
          /\ k <= Len(df)
          /\ categorized_data[k].work_order_id = df[k].work_order_id
          /\ categorized_data[k].ml_categorization
                \in Categorizations(df[k].company_name_standardized)
    /\ rpc = "categorizing" =>
          \/ profile = "AEON" /\ Row.company_name_standardized = "Aeon Landscaping"
          \/ profile = "AE3" /\ Row.company_name_standardized = "AE3 Excavating"

\* an entry once appended is never changed or removed
EntriesKept ==
    /\ Len(categorized_data') >= Len(categorized_data)
    /\ SubSeq(categorized_data', 1, Len(categorized_data)) = categorized_data

\* C22: every row read gets exactly one categorization string recorded, in
\* input order, and none is dropped or changed afterwards: a row of "Aeon
\* Landscaping" the string categorize_aeon returns, a row of "AE3
\* Excavating" the string categorize_ae3 returns (the error string when the
\* call fails), a row of any other company the default string; a failed
\* batch update changes nothing of it.
C22_EveryRowRecordedOnce == [](RowsRecordedInOrder) /\ [][EntriesKept]_vars

\* five rows recorded, an AEON call failed, and the batch update broke off
\* at its second row
C22_Witness ==
    /\ rpc = "done"
    /\ Len(df) = 5
    /\ ui = 2
    /\ df[1].company_name_standardized = "N/A"
    /\ df[2].company_name_standardized = "Aeon Landscaping"
    /\ categorized_data[2].ml_categorization \in CategorizerErrors
    /\ df[3].company_name_standardized = "AE3 Excavating"
    /\ categorized_data[3].ml_categorization \notin CategorizerErrors

(***************************************************************************)
(* Claims about the year conversion                                        *)
(***************************************************************************)
\* the value is a number or a decimal string, and y its integer value
HasIntegerValue(value, y) ==
    \/ value.type = "int" /\ value.val = y
    \/ value.type = "str" /\ AllDigits(value.text) /\ Decimal(value.text) = y

IntegerValues == { y \in 0..3000 : HasIntegerValue(year_value, y) }

\* C23: safe_int returns None for None, "" and "N/A"; for a number or a
\* decimal string of integer value y it returns 2000 + y when 0 <= y < 100
\* and y when y >= 100.
C23_YearConversion ==
    ypc = "returned" =>
        /\ year_value \in {PyNone, PyStr(<<>>), PyStr(NA)} => year_val = PyNone
        /\ \A y \in IntegerValues :
              year_val = PyIntValue(IF y < 100 THEN 2000 + y ELSE y)

(***************************************************************************)
(* Claims about the retry protocol of extract_data_with_claude             *)
(***************************************************************************)
\* the retry loop has been left
LoopLeft == epc \in {"parse", "returned", "done"}

\* every attempt raised
AllAttemptsFailed == LoopLeft /\ message = "unbound"

RetryCounts ==
    /\ api_calls <= 3
    /\ epc = "call" => Len(waits) = api_calls
    /\ LoopLeft => Len(waits) = api_calls - 1
    /\ AllAttemptsFailed =>
          /\ api_calls = 3
          /\ Len(waits) = 2
          /\ data = "None"
          /\ fpc = "idle" /\ lines = <<>> /\ extracted_fields = EmptyDict
          /\ inserted = 0
          /\ epc = "done" => processed = "False"

\* a call is made only inside the loop, before any call has returned
CallOnlyBeforeSuccess ==
    api_calls' # api_calls =>
        /\ api_calls' = api_calls + 1
        /\ epc = "call"
        /\ message = "unbound"

\* a wait follows a failed call and comes before the next one
WaitOnlyAfterFailure ==
    waits' # waits =>
        /\ Len(waits') = Len(waits) + 1
        /\ api_calls' = api_calls + 1
        /\ message' = "unbound"
        /\ epc' = "call"

\* C28: for one document the oracle is called at most 3 times and never
\* after a call has returned; each failed attempt but the third is followed
\* by one wait, before the next attempt; when all three attempts fail,
\* extract_data_with_claude returns None without parsing any field and
\* process_pdf_to_bigquery returns False without inserting a row.
C28_RetryProtocol ==
    /\ [](RetryCounts)
    /\ [][CallOnlyBeforeSuccess /\ WaitOnlyAfterFailure]_vars

\* three failed attempts, two waits, and False returned
C28_Witness ==
    /\ epc = "done"
    /\ message = "unbound"
    /\ api_calls = 3
    /\ waits = <<5, 10>>
    /\ processed = "False"
    /\ inserted = 0

(***************************************************************************)
(* Claims about retries and parsing                                        *)
(***************************************************************************)
\* thread t calls the oracle in this step
CallsOracle(t) == jobs'[t].calls > jobs[t].calls

\* C24: in both extraction paths the oracle is called only as the first
\* attempt or after a failed call of the oracle, never after a failure of
\* the parsing of its response: in _extract_with_claude the exception
\* caught last is not one of _parse_claude_response, in
\* extract_data_with_claude no call has returned yet.
C24_ParsingNeverRetries ==
    [][/\ \A t \in DOMAIN jobs : CallsOracle(t) => jobs[t].error # "parse"
       /\ api_calls' > api_calls => message = "unbound"]_vars

(***************************************************************************)
(* Claims about the labels of the consolidated map                         *)
(***************************************************************************)
\* the label is one the profile lets through
Allowed(p, label) ==
    \/ label \in Taxonomy(p)
    \/ StartsWith(label, <<"Miscellaneous">>)
    \/ p = "AEON" /\ StartsWith(label, <<"Settlement Repairs">>)

\* the labels written in the output: what follows "Service: " on its line
OutputLabels ==
    { LET rest == SubSeq(output, k + 2, Len(output))
          nl == Find(rest, "\n")
      IN  IF nl = 0 THEN rest ELSE SubSeq(rest, 1, nl - 1) :
      k \in { j \in 1..Len(output) : output[j] = "Service:" } }

\* C25: in both profiles every key of the consolidated map is a member of
\* the profile's taxonomy, or starts with "Miscellaneous", or (AEON only)
\* starts with "Settlement Repairs"; so is every label of the formatted
\* output.
C25_OnlyAllowedLabels ==
    /\ \A i \in 1..Len(consolidated_services) :
          Allowed(profile, consolidated_services[i].key)
    /\ (cpc = "returned" /\ consolidated_services # <<>>) =>
          /\ OutputLabels # {}
          /\ \A label \in OutputLabels : Allowed(profile, label)

\* under AE3 "Settlement Repairs" and "Digging A Trench" came out under the
\* catch-all
C25_Witness ==
    /\ profile = "AE3"
    /\ cpc = "returned"
    /\ OutputLabels = { <<"Miscellaneous", " ", "(", "Settlement Repairs", ")">>,
                        <<"Miscellaneous", " ", "(", "Digging A Trench", ")">> }

(***************************************************************************)
(* Claims about the locations kept by the default rule                     *)
(***************************************************************************)
\* the entries of the map other than the one of the label are the same
OthersKept(label) ==
    /\ \A i \in 1..Len(consolidated_services) :
          consolidated_services[i].key # label =>
              consolidated_services'[i] = consolidated_services[i]
    /\ \A i \in 1..Len(consolidated_services') :
          i > Len(consolidated_services) => consolidated_services'[i].key = label

\* C26: under the default rule every location other than "Not specified"
\* seen for a label is a part of the label's value, and a step changes the
\* value of its label only by setting it at the first occurrence, by
\* appending ", <location>", or by replacing a standing "Not specified".
C26_NoLocationLost ==
    /\ [](\A label \in SeenLabels :
            DefaultRule(label) =>
                \A k \in 1..Len(LocationsOf(label)) :
                    LocationsOf(label)[k] # NotSpecified =>
                        Within(LocationsOf(label)[k],
                               Held(consolidated_services, label)))
    /\ [][ DefaultStep =>
            LET label == parsed_services[ci].service
                loc == parsed_services[ci].blocks
                old == Held(consolidated_services, label)
                new == Held(consolidated_services', label)
            IN  /\ OthersKept(label)
                /\ Keyed(consolidated_services', label)
                /\ IF ~Keyed(consolidated_services, label) THEN new = loc
                   ELSE \/ new = old
                        \/ /\ old # NotSpecified /\ loc # NotSpecified
                           /\ new = old \o <<",", " ">> \o loc
                        \/ old = NotSpecified /\ new = loc ]_vars

\* "Straw Installation" seen at Lot 1, then unlocated, then at Lot 2
C26_Witness ==
    /\ cpc = "returned"
    /\ LocationsOf(<<"Straw Installation">>) =
          << <<"Lot", " ", "1">>, NotSpecified, <<"Lot", " ", "2">> >>
    /\ Held(consolidated_services, <<"Straw Installation">>) =
          <<"Lot", " ", "1", ",", " ", "Lot", " ", "2">>

(***************************************************************************)
(* Claims about running the post-processing again                          *)
(***************************************************************************)
\* C27: when the result of a categorizer is not the empty-result sentinel,
\* the split, parse, validate, consolidate and format steps run again on
\* that result return the same string.
C27_PostProcessingIdempotent ==
    (run = 2 /\ cpc = "returned") => output = first_output

(***************************************************************************)
(* Claims about the metrics of OCRService.extract_from_pdf                 *)
(***************************************************************************)
\* the call of thread t has begun and has not ended
InProgress(t) == jobs[t].pc \notin {"created", "ended"}

\* the call of thread t has counted its request
Counted(t) == jobs[t].pc \in {"finally", "ended"}

Ended(t) == jobs[t].pc = "ended"

\* C29: with the calls of process_batch_async running concurrently, the
\* gauge active_ocr_jobs equals the number of calls in progress and is zero
\* once all calls have ended; the success counter is the number of calls
\* that returned and the failure counter the number of calls that raised,
\* each ended call being one of the two; a call whose publish failed
\* returns its work order and counts as a success.
C29_MetricsFollowCalls ==
    /\ active_ocr_jobs = Cardinality({ t \in DOMAIN jobs : InProgress(t) })
    /\ (\A t \in DOMAIN jobs : Ended(t)) => active_ocr_jobs = 0
    /\ ocr_requests_total.success =
          Cardinality({ t \in DOMAIN jobs : Counted(t) /\ jobs[t].outcome = "returned" })
    /\ ocr_requests_total.failure =
          Cardinality({ t \in DOMAIN jobs : Counted(t) /\ jobs[t].outcome = "raised" })
    /\ \A t \in DOMAIN jobs :
          /\ Counted(t) <=> jobs[t].outcome \in {"returned", "raised"}
          /\ (Counted(t) /\ jobs[t].publish_failed) => jobs[t].outcome = "returned"
          /\ jobs[t].outcome = "raised" => jobs[t].error # "none"

\* both calls have ended: one returned although its publish failed, the
\* other raised after three failed calls of the oracle
C29_Witness ==
    /\ \A t \in DOMAIN jobs : Ended(t)
    /\ active_ocr_jobs = 0
    /\ ocr_requests_total = [success |-> 1, failure |-> 1]
    /\ \E t \in DOMAIN jobs : jobs[t].publish_failed /\ jobs[t].outcome = "returned"
    /\ \E t \in DOMAIN jobs :
          jobs[t].outcome = "raised" /\ jobs[t].calls = 3 /\ jobs[t].error = "api"

(***************************************************************************)
(* Claims about the correlation id                                         *)
(***************************************************************************)
\* C30: every entry written through a PipelineContext carries the
\* correlation_id of that context, also when a second context has been
\* entered, nested or concurrently, before the entry is written.
C30_EntriesCarryOwnId ==
    \A k \in 1..Len(log_entries) :
        log_entries[k].context # 0 =>
            log_entries[k].correlation_id = log_entries[k].context

=============================================================================
